---------------------------- MODULE Spec2Model ----------------------------
(***************************************************************************)
(* A model of the AI Code Helper: the command safety filter                *)
(* (utils/terminal_commands.py), the intent dispatcher and the project     *)
(* workflows (agents/code_agent.py) and the CLI `run` subcommand (main.py).*)
(*                                                                         *)
(* Python strings are TLA+ strings; TLC's Sequences operators Len, SubSeq  *)
(* and \o act on them character by character, so substring tests, find,    *)
(* strip, lower and the regular expressions are computed as Python does.   *)
(***************************************************************************)
EXTENDS Integers, Sequences, FiniteSets, TLC

VARIABLES
    cmd,        \* the command string handed to the safety filter under test
    verdict,    \* "unchecked", then "safe" or "unsafe": what is_safe_command said of cmd
    mode,       \* "idle": waiting for an operation; "done": a handler returned
    opName,     \* the handler that ran last
    input,      \* the text that handler was given
    answers,    \* what the handler's collaborators answered during the call
    intent,     \* the branch of process_request that handled the request
    result,     \* the value the handler returned to its caller
    raised,     \* TRUE iff an exception left the handler instead of a value
    trace,      \* the calls the handler made on its collaborators, in order
    clock,      \* the seconds the system clock has advanced, as datetime.now() reads it
    saved_files \* the files written so far, oldest first: their paths and contents

vars == <<cmd, verdict, mode, opName, input, answers, intent, result, raised, trace,
          clock, saved_files>>

-----------------------------------------------------------------------------
(* Python string primitives                                                *)

\* s[i-1:j] of Python for 1-based inclusive bounds: a slice never fails, it is
\* cut to the string
Slice(s, i, j) ==
    LET a == IF i < 1 THEN 1 ELSE i
        b == IF j > Len(s) THEN Len(s) ELSE j
    IN  IF a > b THEN "" ELSE SubSeq(s, a, b)

\* s[i] for a 1-based index
CharAt(s, i) == Slice(s, i, i)

\* s[i:] for a 1-based index
From(s, i) == Slice(s, i, Len(s))

\* `sub in s`
Contains(s, sub) ==
    \E i \in 1..(Len(s) - Len(sub) + 1) : Slice(s, i, i + Len(sub) - 1) = sub

\* s.startswith(prefix)
StartsWith(s, prefix) ==
    /\ Len(prefix) <= Len(s)
    /\ Slice(s, 1, Len(prefix)) = prefix

\* s.find(sub, start): the lowest 0-based index >= start where sub occurs, else -1
Find(s, sub, start) ==
    LET hits == {i \in start..(Len(s) - Len(sub)) :
                    Slice(s, i + 1, i + Len(sub)) = sub}
    IN  IF hits = {} THEN -1
        ELSE CHOOSE i \in hits : \A j \in hits : i <= j

UpperLetters == "ABCDEFGHIJKLMNOPQRSTUVWXYZ"
LowerLetters == "abcdefghijklmnopqrstuvwxyz"

\* the lower-case letter of every upper-case ASCII letter
LowerOf ==
    [c \in {CharAt(UpperLetters, i) : i \in 1..Len(UpperLetters)} |->
        CharAt(LowerLetters, CHOOSE i \in 1..Len(UpperLetters) : CharAt(UpperLetters, i) = c)]

\* c.lower() for one character (ASCII letters; other characters are unchanged)
LowerChar(c) == IF c \in DOMAIN LowerOf THEN LowerOf[c] ELSE c

RECURSIVE Lower(_)
\* s.lower(), character by character (the string is halved so that long
\* strings need no deep recursion)
Lower(s) ==
    IF Len(s) <= 1 THEN LowerChar(s)
    ELSE LET mid == Len(s) \div 2
         IN  Lower(Slice(s, 1, mid)) \o Lower(From(s, mid + 1))

\* the characters str.strip() and the regex class \s remove or match
PyWhitespace == {" ", "\t", "\n", "\r", "\f"}

RECURSIVE LStrip(_)
LStrip(s) ==
    IF s # "" /\ Head(s) \in PyWhitespace THEN LStrip(Tail(s)) ELSE s

RECURSIVE RStrip(_)
RStrip(s) ==
    IF s # "" /\ CharAt(s, Len(s)) \in PyWhitespace
    THEN RStrip(Slice(s, 1, Len(s) - 1)) ELSE s

\* s.strip()
Strip(s) == RStrip(LStrip(s))

-----------------------------------------------------------------------------
(* shlex.split(command), as is_safe_command calls it: POSIX mode,          *)
(* whitespace_split, no comment characters.  The scanner is shlex's        *)
(* read_token state machine run over the whole string: st is its state     *)
(* (" " between tokens, "a" in a word, a quote character inside quotes,    *)
(* "\\" after an escape), esc its escapedstate.                            *)

ShlexQuotes == {"'", "\""}
ShlexEscape == "\\"

\* a token ends: it is kept when it is not empty or came out of quotes
ShlexEmit(z) == IF z.token # "" \/ z.quoted THEN Append(z.tokens, z.token) ELSE z.tokens

\* one character c read in scanner state z
ShlexStep(z, c) ==
    IF z.st = " " THEN
        IF c \in {" ", "\t", "\r", "\n"} THEN [z EXCEPT !.token = "", !.quoted = FALSE]
        ELSE IF c = ShlexEscape
             THEN [z EXCEPT !.st = ShlexEscape, !.esc = "a", !.token = "", !.quoted = FALSE]
        ELSE IF c \in ShlexQuotes THEN [z EXCEPT !.st = c, !.token = "", !.quoted = FALSE]
        ELSE [z EXCEPT !.st = "a", !.token = c, !.quoted = FALSE]
    ELSE IF z.st \in ShlexQuotes THEN
        IF c = z.st THEN [z EXCEPT !.st = "a", !.quoted = TRUE]
        ELSE IF c = ShlexEscape /\ z.st = "\""
             THEN [z EXCEPT !.st = ShlexEscape, !.esc = z.st, !.quoted = TRUE]
        ELSE [z EXCEPT !.token = z.token \o c, !.quoted = TRUE]
    ELSE IF z.st = ShlexEscape THEN
        \* inside double quotes a backslash before an ordinary character is kept
        LET kept == IF z.esc \in ShlexQuotes /\ c # ShlexEscape /\ c # z.esc
                    THEN ShlexEscape ELSE ""
        IN  [z EXCEPT !.st = z.esc, !.token = z.token \o kept \o c]
    ELSE \* z.st = "a"
        IF c \in {" ", "\t", "\r", "\n"}
            THEN [z EXCEPT !.st = " ", !.token = "", !.quoted = FALSE, !.tokens = ShlexEmit(z)]
        ELSE IF c \in ShlexQuotes THEN [z EXCEPT !.st = c]
        ELSE IF c = ShlexEscape THEN [z EXCEPT !.st = ShlexEscape, !.esc = "a"]
        ELSE [z EXCEPT !.token = z.token \o c]

RECURSIVE ShlexScan(_, _, _, _)
\* the scanner state after the characters i..j of s, read in order from state z
\* (the range is halved so that long commands need no deep recursion)
ShlexScan(s, z, i, j) ==
    IF i > j THEN z
    ELSE IF i = j THEN ShlexStep(z, CharAt(s, i))
    ELSE LET mid == (i + j) \div 2
             left == ShlexScan(s, z, i, mid)
         IN  \* the test makes TLC compute the left half before the right one
             IF left.st = "" THEN left ELSE ShlexScan(s, left, mid + 1, j)

\* [ok |-> FALSE] when shlex raises ValueError (no closing quotation, no escaped
\* character), else the list of words
ShlexSplit(command) ==
    LET start == [st |-> " ", esc |-> "", token |-> "", quoted |-> FALSE, tokens |-> <<>>]
        z == ShlexScan(command, start, 1, Len(command))
    IN  IF z.st \in ShlexQuotes \/ z.st = ShlexEscape THEN [ok |-> FALSE, tokens |-> <<>>]
        ELSE [ok |-> TRUE, tokens |-> ShlexEmit(z)]

-----------------------------------------------------------------------------
(* utils/terminal_commands.py: the safety filter                           *)

\* the list as it would be with a harmless command entered among the dangerous ones
dangerous_commands_and_ls ==
    << "rm", "rmdir", "del", "format", "shutdown", "reboot",
       "sudo", "su", "chown", "chmod", "mkfs", "dd",
       "wget", "curl", ">", ">>", "|", "ls" >>

\* the local list dangerous_commands of is_safe_command, in its order
dangerous_commands ==
    << "rm", "rmdir", "del", "format", "shutdown", "reboot",
       "sudo", "su", "chown", "chmod", "mkfs", "dd",
       "wget", "curl", ">", ">>", "|" >>

\* the loop as it would be without .lower(): the entries are looked for in the
\* command as typed
MatchesDangerousAsTyped(command) ==
    \E k \in 1..Len(dangerous_commands) :
        Contains(command, dangerous_commands[k])

\* the loop over dangerous_commands: some entry occurs in command.lower()
MatchesDangerous(command) ==
    \E k \in 1..Len(dangerous_commands) :
        Contains(Lower(command), dangerous_commands[k])

\* is_safe_command as it would be if the ValueError of shlex.split were passed
\* over: a command that cannot be tokenized is judged by its substrings alone
is_safe_command_fail_open(command) == ~MatchesDangerous(command)

\* is_safe_command(command)
is_safe_command(command) ==
    IF ~ShlexSplit(command).ok THEN FALSE
    ELSE IF MatchesDangerous(command) THEN FALSE
    ELSE TRUE


-----------------------------------------------------------------------------
(* utils/terminal_commands.py: suggestions and the executor                *)

\* the dict alternatives of suggest_safe_alternatives, in insertion order
alternatives ==
    << [cmd |-> "rm", alts |-> << "Use file explorer to delete files",
                                  "Use a script with confirmation prompts" >>],
       [cmd |-> "rmdir", alts |-> << "Use file explorer to delete directories",
                                     "Create a backup before deleting" >>],
       [cmd |-> "sudo", alts |-> << "Run the command without elevated privileges if possible" >>],
       [cmd |-> "format", alts |-> << "Use a GUI disk management tool instead" >>],
       [cmd |-> "dd", alts |-> << "Use a specialized backup/restore tool with safeguards" >>] >>

RECURSIVE CollectAlternatives(_, _)
\* the loop of suggest_safe_alternatives from entry k on
CollectAlternatives(command, k) ==
    IF k > Len(alternatives) THEN <<>>
    ELSE (IF Contains(Lower(command), alternatives[k].cmd)
          THEN alternatives[k].alts ELSE <<>>)
         \o CollectAlternatives(command, k + 1)

\* suggest_safe_alternatives(command)
suggest_safe_alternatives(command) ==
    LET suggestions == CollectAlternatives(command, 1)
    IN  IF suggestions = <<>>
        THEN << "Consider reviewing the command manually before execution" >>
        ELSE suggestions

\* what running a command can come to: the process completes with an exit code,
\* does not finish within the timeout, or cannot be launched
ExecOutcomes ==
    { [kind |-> "completed", returncode |-> 0, stdout |-> "out", stderr |-> ""],
      [kind |-> "completed", returncode |-> 2, stdout |-> "", stderr |-> "err"],
      [kind |-> "timeout", returncode |-> 0, stdout |-> "", stderr |-> ""],
      [kind |-> "oserror", returncode |-> 0, stdout |-> "", stderr |-> ""] }

\* the ways a command can fail to start
LaunchFailures == {"not_found", "permission_denied", "no_shell"}

\* what subprocess.run(command, shell=True) comes to for a command that cannot
\* be started: the shell itself starts and exits with 127 (no such command) or
\* 126 (not executable) after naming the failure on stderr; only when the shell
\* cannot be started does subprocess.run raise
LaunchFailureOutcome(command, failure) ==
    IF failure = "not_found" THEN
        [kind |-> "completed", returncode |-> 127, stdout |-> "",
         stderr |-> "/bin/sh: 1: " \o command \o ": not found\n"]
    ELSE IF failure = "permission_denied" THEN
        [kind |-> "completed", returncode |-> 126, stdout |-> "",
         stderr |-> "/bin/sh: 1: " \o command \o ": Permission denied\n"]
    ELSE [kind |-> "oserror", returncode |-> 0, stdout |-> "", stderr |-> ""]

\* an executor that would report success whatever the exit code
execute_command_ignoring_exit_code(command, timeout, outcome) ==
    [status |-> "success", stdout |-> outcome.stdout, stderr |-> outcome.stderr,
     exit_code |-> outcome.returncode, message |-> "Command executed successfully"]

\* an executor that would treat a timeout like any other exception
execute_command_timeout_as_exception(command, timeout, outcome) ==
    IF command = "" THEN
        [status |-> "error", stderr |-> "No command provided", exit_code |-> 1,
         message |-> "No command provided"]
    ELSE IF outcome.kind = "completed" THEN
        [status |-> IF outcome.returncode = 0 THEN "success" ELSE "error",
         stdout |-> outcome.stdout, stderr |-> outcome.stderr,
         exit_code |-> outcome.returncode, message |-> "Command executed successfully"]
    ELSE [status |-> "error", stderr |-> "timed out", exit_code |-> 1,
          message |-> "Error executing command: timed out"]

\* execute_command(command, cwd, timeout) when running the command comes to `outcome`
execute_command(command, timeout, outcome) ==
    IF command = "" THEN
        [status |-> "error", stderr |-> "No command provided", exit_code |-> 1,
         message |-> "No command provided"]
    ELSE IF outcome.kind = "completed" THEN
        IF outcome.returncode = 0 THEN
            [status |-> "success", stdout |-> outcome.stdout, stderr |-> outcome.stderr,
             exit_code |-> outcome.returncode, message |-> "Command executed successfully"]
        ELSE
            [status |-> "error", stdout |-> outcome.stdout, stderr |-> outcome.stderr,
             exit_code |-> outcome.returncode,
             message |-> "Command failed with exit code " \o ToString(outcome.returncode)
                         \o ": " \o outcome.stderr]
    ELSE IF outcome.kind = "timeout" THEN
        \* str(e) of subprocess.TimeoutExpired
        [status |-> "error",
         stderr |-> "Command '" \o command \o "' timed out after " \o ToString(timeout)
                    \o " seconds",
         exit_code |-> 124,
         message |-> "Command execution timed out after " \o ToString(timeout) \o " seconds"]
    ELSE
        \* str(e) of the error that kept the command from being launched
        LET text == "[Errno 13] Permission denied"
        IN  [status |-> "error", stderr |-> text, exit_code |-> 1,
             message |-> "Error executing command: " \o text]

\* the default timeout of execute_command
DefaultTimeout == 60

\* result.get(key, "") for the keys some results lack
Get(res, key) == IF key \in DOMAIN res THEN res[key] ELSE ""

\* one entry of the call trace
Call(fn, arg) == [fn |-> fn, arg |-> arg]

-----------------------------------------------------------------------------
(* Regular expressions of the dispatcher                                   *)

\* SANY accepts no backquote inside a string literal: in every string of the
\* model the character ~ stands for the backquote, so a fence is ~~~
Fence == "~~~"

WordChars ==
    {CharAt(LowerLetters, i) : i \in 1..Len(LowerLetters)} \cup
    {CharAt(UpperLetters, i) : i \in 1..Len(UpperLetters)} \cup
    {"0", "1", "2", "3", "4", "5", "6", "7", "8", "9", "_"}

RECURSIVE SkipWhile(_, _, _)
\* the first 1-based position >= i of s whose character is not in chars
SkipWhile(s, i, chars) ==
    IF i <= Len(s) /\ CharAt(s, i) \in chars THEN SkipWhile(s, i + 1, chars) ELSE i

Min(S) == CHOOSE x \in S : \A y \in S : x <= y
Max(S) == CHOOSE x \in S : \A y \in S : x >= y

\* one match of ```(\w+)?\s*\n([\s\S]*?)\n``` starting at position i: the tag is
\* the longest run of word characters, \s* gives back as little as it must for
\* a newline and a later closing fence to follow, the body stops at the first
\* closing fence
BlockMatchAt(text, i) ==
    IF Slice(text, i, i + 2) # Fence THEN [found |-> FALSE]
    ELSE
        LET \* the positions m >= from where a newline and a fence start
            ClosingFences(from) ==
                {m \in from..(Len(text) - 3) : Slice(text, m, m + 3) = "\n" \o Fence}
            k == SkipWhile(text, i + 3, WordChars)
            e == SkipWhile(text, k, PyWhitespace)
            ns == {n \in k..(e - 1) :
                      CharAt(text, n) = "\n" /\ ClosingFences(n + 1) # {}}
        IN  IF ns = {} THEN [found |-> FALSE]
            ELSE LET n == Max(ns)
                     m == Min(ClosingFences(n + 1))
                 IN  [found |-> TRUE,
                      tag |-> Slice(text, i + 3, k - 1),
                      body |-> Slice(text, n + 1, m - 1),
                      next |-> m + 4]

RECURSIVE FindBlocksFromLastFirst(_, _)
\* an extraction that would return the blocks last to first
FindBlocksFromLastFirst(text, pos) ==
    LET starts == {i \in pos..Len(text) : BlockMatchAt(text, i).found}
    IN  IF starts = {} THEN <<>>
        ELSE LET b == BlockMatchAt(text, Min(starts))
             IN  FindBlocksFromLastFirst(text, b.next) \o <<[tag |-> b.tag, body |-> b.body]>>

RECURSIVE FindBlocksFrom(_, _)
FindBlocksFrom(text, pos) ==
    LET starts == {i \in pos..Len(text) : BlockMatchAt(text, i).found}
    IN  IF starts = {} THEN <<>>
        ELSE LET b == BlockMatchAt(text, Min(starts))
             IN  <<[tag |-> b.tag, body |-> b.body]>> \o FindBlocksFrom(text, b.next)

\* re.findall(r'```(\w+)?\s*\n([\s\S]*?)\n```', text): the blocks in document
\* order, each with its tag ("" when the fence has none) and its body.  The
\* dispatcher's other pattern, with (?:\w+)?, matches the same regions and
\* returns the bodies alone.
FindCodeBlocks(text) == FindBlocksFrom(text, 1)

-----------------------------------------------------------------------------
(* Python's re, for the patterns of utils/code_utils.py and of the         *)
(* workflows.  A pattern is the sequence of its items; an item is          *)
(*   Bol              ^ under re.MULTILINE                                 *)
(*   Lit(s)           the literal text s                                   *)
(*   OptLit(s)        (?:s)?                                               *)
(*   Rep(cls, min, max, greedy, cap)                                       *)
(*                    a character class repeated min to max times (max 0:  *)
(*                    no limit), greedy or lazy, cap: the pattern's group  *)
(* and matching is Python's backtracking search: items are tried left to   *)
(* right, a repetition tries its counts longest first (greedy) or shortest *)
(* first (lazy), and the first way that lets the rest match is the match.  *)

Letters ==
    {CharAt(LowerLetters, i) : i \in 1..Len(LowerLetters)} \cup
    {CharAt(UpperLetters, i) : i \in 1..Len(UpperLetters)}

\* c.upper() for one character (ASCII letters)
UpperOf ==
    [c \in {CharAt(LowerLetters, i) : i \in 1..Len(LowerLetters)} |->
        CharAt(UpperLetters, CHOOSE i \in 1..Len(LowerLetters) : CharAt(LowerLetters, i) = c)]

Bol == [k |-> "bol", s |-> "", neg |-> FALSE, chars |-> {}, min |-> 0, max |-> 0,
        greedy |-> TRUE, cap |-> FALSE]
Lit(s) == [k |-> "lit", s |-> s, neg |-> FALSE, chars |-> {}, min |-> 0, max |-> 0,
           greedy |-> TRUE, cap |-> FALSE]
OptLit(s) == [k |-> "optlit", s |-> s, neg |-> FALSE, chars |-> {}, min |-> 0, max |-> 0,
              greedy |-> TRUE, cap |-> FALSE]
Rep(cls, min, max, greedy, cap) ==
    [k |-> "rep", s |-> "", neg |-> cls.neg, chars |-> cls.chars, min |-> min,
     max |-> max, greedy |-> greedy, cap |-> cap]

\* character classes: In(S) is [S], NotIn(S) is [^S]; the dot is every
\* character but the newline
In(S) == [neg |-> FALSE, chars |-> S]
NotIn(S) == [neg |-> TRUE, chars |-> S]
Dot == NotIn({"\n"})
AnyChar == NotIn({})

\* whether character c is in the class of item it (ic: re.IGNORECASE)
InClass(c, it, ic) ==
    LET upper == IF c \in DOMAIN UpperOf THEN UpperOf[c] ELSE c
        hit == \/ c \in it.chars
               \/ ic /\ (LowerChar(c) \in it.chars \/ upper \in it.chars)
    IN  hit # it.neg

RECURSIVE RunEnd(_, _, _, _, _)
\* the first position of a..b whose character is not in the class of it, b + 1
\* when there is none (the range is halved, the left half looked at first)
RunEnd(text, it, ic, a, b) ==
    IF a > b THEN a
    ELSE IF a = b THEN IF InClass(CharAt(text, a), it, ic) THEN a + 1 ELSE a
    ELSE LET mid == (a + b) \div 2
             left == RunEnd(text, it, ic, a, mid)
         IN  IF left <= mid THEN left ELSE RunEnd(text, it, ic, mid + 1, b)

\* how many characters of text from position p on are in the class of it, up to
\* limit
RunLength(text, p, it, ic, limit) ==
    LET most == Min({limit, Len(text) - p + 1})
    IN  IF most <= 0 THEN 0
        ELSE IF it.chars = {} /\ it.neg THEN most
        ELSE IF ~InClass(CharAt(text, p), it, ic) THEN 0
        ELSE RunEnd(text, it, ic, p, p + most - 1) - p

\* whether the literal s stands at position p of text
LitAt(text, p, s, ic) ==
    LET got == Slice(text, p, p + Len(s) - 1)
    IN  IF ic THEN /\ Len(got) = Len(s)
                   /\ LowerChar(CharAt(got, 1)) = LowerChar(CharAt(s, 1))
                   /\ Lower(got) = Lower(s)
        ELSE got = s

ReFail == [ok |-> FALSE, end |-> 0, cap |-> ""]

RECURSIVE ReMatch(_, _, _, _, _)
RECURSIVE ReAfter(_, _, _, _, _, _, _)
RECURSIVE ReFirst(_, _, _, _, _, _, _, _)
RECURSIVE ReLast(_, _, _, _, _, _, _, _)
RECURSIVE ReTry(_, _, _, _, _, _, _)

\* the match of the items at position p of text, cap being the group so far
ReMatch(items, text, p, ic, cap) ==
    IF items = <<>> THEN [ok |-> TRUE, end |-> p, cap |-> cap]
    ELSE
        LET it == Head(items)
            rest == Tail(items)
        IN
        IF it.k = "bol" THEN
            IF p = 1 \/ CharAt(text, p - 1) = "\n"
            THEN ReMatch(rest, text, p, ic, cap) ELSE ReFail
        ELSE IF it.k = "lit" THEN
            IF LitAt(text, p, it.s, ic)
            THEN ReMatch(rest, text, p + Len(it.s), ic, cap) ELSE ReFail
        ELSE IF it.k = "optlit" THEN
            LET with == IF LitAt(text, p, it.s, ic)
                        THEN ReMatch(rest, text, p + Len(it.s), ic, cap) ELSE ReFail
            IN  IF with.ok THEN with ELSE ReMatch(rest, text, p, ic, cap)
        ELSE
            LET r == RunLength(text, p, it, ic, IF it.max = 0 THEN Len(text) ELSE it.max)
            IN  IF r < it.min THEN ReFail
                ELSE ReTry(it, rest, text, p, ic, cap, r)

\* the match of the rest of the pattern after the repetition it took k characters
ReAfter(it, rest, text, p, ic, cap, k) ==
    ReMatch(rest, text, p + k, ic, IF it.cap THEN Slice(text, p, p + k - 1) ELSE cap)

\* the smallest count of a..b after which the rest matches, -1 when there is none
ReFirst(it, rest, text, p, ic, cap, a, b) ==
    IF a > b THEN -1
    ELSE IF a = b THEN IF ReAfter(it, rest, text, p, ic, cap, a).ok THEN a ELSE -1
    ELSE LET mid == (a + b) \div 2
             left == ReFirst(it, rest, text, p, ic, cap, a, mid)
         IN  IF left # -1 THEN left ELSE ReFirst(it, rest, text, p, ic, cap, mid + 1, b)

\* the largest count of a..b after which the rest matches, -1 when there is none
ReLast(it, rest, text, p, ic, cap, a, b) ==
    IF a > b THEN -1
    ELSE IF a = b THEN IF ReAfter(it, rest, text, p, ic, cap, a).ok THEN a ELSE -1
    ELSE LET mid == (a + b) \div 2
             right == ReLast(it, rest, text, p, ic, cap, mid + 1, b)
         IN  IF right # -1 THEN right ELSE ReLast(it, rest, text, p, ic, cap, a, mid)

\* the repetition it, which can take it.min..r characters: the rest of the
\* pattern is tried after the longest count first (greedy) or the shortest
\* first (lazy), and the first count after which it matches is taken
ReTry(it, rest, text, p, ic, cap, r) ==
    LET k == IF it.greedy THEN ReLast(it, rest, text, p, ic, cap, it.min, r)
             ELSE ReFirst(it, rest, text, p, ic, cap, it.min, r)
    IN  IF k = -1 THEN ReFail ELSE ReAfter(it, rest, text, p, ic, cap, k)

RECURSIVE ReFirstStart(_, _, _, _, _)
\* the first position of a..b at which the items match, 0 when there is none
ReFirstStart(items, text, ic, a, b) ==
    IF a > b THEN 0
    ELSE IF a = b THEN IF ReMatch(items, text, a, ic, "").ok THEN a ELSE 0
    ELSE LET mid == (a + b) \div 2
             left == ReFirstStart(items, text, ic, a, mid)
         IN  IF left # 0 THEN left ELSE ReFirstStart(items, text, ic, mid + 1, b)

\* the leftmost match starting at position p or later
ReSearchFrom(items, text, p, ic) ==
    LET Matched(q, m) == [ok |-> TRUE, start |-> q, end |-> m.end, cap |-> m.cap]
        Found(q) == IF q = 0 THEN [ok |-> FALSE, start |-> 0, end |-> 0, cap |-> ""]
                    ELSE Matched(q, ReMatch(items, text, q, ic, ""))
    IN  Found(ReFirstStart(items, text, ic, p, Len(text) + 1))

RECURSIVE ReFindAllFrom(_, _, _, _)
ReFindAllFrom(items, text, p, ic) ==
    LET Found(m) ==
            IF ~m.ok THEN <<>>
            ELSE <<m.cap>> \o ReFindAllFrom(items, text,
                                            IF m.end > m.start THEN m.end ELSE m.start + 1, ic)
    IN  Found(ReSearchFrom(items, text, p, ic))

\* re.findall(pattern, text) for a pattern with one group: the group of every
\* match, left to right, matches not overlapping
ReFindAll(items, text, ic) == ReFindAllFrom(items, text, 1, ic)

-----------------------------------------------------------------------------
(* utils/code_utils.py                                                     *)

\* Python's None; str(None) is "None", and None and "" are both falsy
None == "None"
Falsy(x) == x = None \/ x = ""

\* \s*, \s+, .+ and .* as pattern items
Ws0 == Rep(In(PyWhitespace), 0, 0, TRUE, FALSE)
Ws1 == Rep(In(PyWhitespace), 1, 0, TRUE, FALSE)

\* the dict language_patterns of detect_language, in insertion order; every
\* pattern is searched with re.IGNORECASE | re.MULTILINE
language_patterns ==
    <<
       [lang |-> "python", patterns |-> <<
            <<Bol, Ws0, Lit("import"), Ws1>>,
            <<Bol, Ws0, Lit("from"), Ws1, Rep(Dot, 1, 0, TRUE, FALSE), Ws1, Lit("import")>>,
            <<Bol, Ws0, Lit("def"), Ws1>>,
            <<Bol, Ws0, Lit("class"), Ws1>> >>],
       [lang |-> "javascript", patterns |-> <<
            <<Bol, Ws0, Lit("const"), Ws1>>,
            <<Bol, Ws0, Lit("let"), Ws1>>,
            <<Bol, Ws0, Lit("function"), Ws1>>,
            <<Bol, Ws0, Lit("import"), Ws1, Rep(Dot, 1, 0, TRUE, FALSE), Ws1, Lit("from")>> >>],
       [lang |-> "typescript", patterns |-> <<
            <<Bol, Ws0, Lit("interface"), Ws1>>,
            <<Bol, Ws0, Lit("type"), Ws1>>,
            <<Lit(":"), Ws0, Rep(In(Letters), 1, 0, TRUE, FALSE)>> >>],
       [lang |-> "java", patterns |-> <<
            <<Bol, Ws0, Lit("public"), Ws1, Lit("class")>>,
            <<Bol, Ws0, Lit("private"), Ws1>>,
            <<Bol, Ws0, Lit("protected"), Ws1>>,
            <<Bol, Ws0, Lit("import"), Ws1, Lit("java.")>> >>],
       [lang |-> "c", patterns |-> <<
            <<Lit("#include"), Ws1, Lit("<")>>,
            <<Bol, Ws0, Lit("int"), Ws1, Lit("main"), Ws0, Lit("(")>> >>],
       [lang |-> "cpp", patterns |-> <<
            <<Lit("#include"), Ws1, Lit("<")>>,
            <<Lit("std::")>>,
            <<Lit("namespace"), Ws1>>,
            <<Lit("template"), Ws0, Lit("<")>> >>],
       [lang |-> "csharp", patterns |-> <<
            <<Bol, Ws0, Lit("using"), Ws1, Lit("System")>>,
            <<Lit("namespace"), Ws1>>,
            <<Lit("public"), Ws1, Lit("class")>> >>],
       [lang |-> "php", patterns |-> <<
            <<Lit("<?php")>>,
            <<Lit("$"), Rep(In(Letters \cup {"_"}), 1, 1, TRUE, FALSE), Rep(In(WordChars), 0, 0, TRUE, FALSE)>> >>],
       [lang |-> "go", patterns |-> <<
            <<Lit("package"), Ws1>>,
            <<Lit("func"), Ws1>>,
            <<Lit("import"), Ws1, Lit("(")>> >>],
       [lang |-> "ruby", patterns |-> <<
            <<Bol, Ws0, Lit("require"), Ws1>>,
            <<Bol, Ws0, Lit("class"), Ws1>>,
            <<Bol, Ws0, Lit("def"), Ws1>>,
            <<Bol, Ws0, Lit("end")>> >>],
       [lang |-> "rust", patterns |-> <<
            <<Lit("fn"), Ws1>>,
            <<Lit("let"), Ws1, Lit("mut")>>,
            <<Lit("struct"), Ws1>>,
            <<Lit("impl"), Ws1>> >>],
       [lang |-> "kotlin", patterns |-> <<
            <<Lit("fun"), Ws1>>,
            <<Lit("val"), Ws1>>,
            <<Lit("var"), Ws1>>,
            <<Lit("class"), Ws1>> >>],
       [lang |-> "swift", patterns |-> <<
            <<Lit("func"), Ws1>>,
            <<Lit("var"), Ws1>>,
            <<Lit("let"), Ws1>>,
            <<Lit("class"), Ws1>> >>],
       [lang |-> "html", patterns |-> <<
            <<Lit("<!DOCTYPE"), Ws1, Lit("html>")>>,
            <<Lit("<html")>>,
            <<Lit("<head")>>,
            <<Lit("<body")>> >>],
       [lang |-> "css", patterns |-> <<
            <<Bol, Ws0, Lit("."), Rep(In(Letters), 1, 1, TRUE, FALSE)>>,
            <<Bol, Ws0, Lit("#"), Rep(In(Letters), 1, 1, TRUE, FALSE)>>,
            <<Lit("{"), Ws0, Rep(In(Letters \cup {"-"}), 1, 0, TRUE, FALSE), Ws0, Lit(":")>> >>],
       [lang |-> "sql", patterns |-> <<
            <<Bol, Ws0, Lit("SELECT"), Ws1>>,
            <<Bol, Ws0, Lit("INSERT"), Ws1, Lit("INTO")>>,
            <<Bol, Ws0, Lit("UPDATE"), Ws1>>,
            <<Bol, Ws0, Lit("CREATE"), Ws1, Lit("TABLE")>> >>] >>

RECURSIVE DetectFromLast(_, _)
\* a detector that would return the last language of the table with a matching cue
DetectFromLast(code, k) ==
    IF k > Len(language_patterns) THEN None
    ELSE LET later == DetectFromLast(code, k + 1)
         IN  IF later # None THEN later
             ELSE IF \E j \in 1..Len(language_patterns[k].patterns) :
                         ReSearchFrom(language_patterns[k].patterns[j], code, 1, TRUE).ok
                  THEN language_patterns[k].lang
                  ELSE None

RECURSIVE DetectFrom(_, _)
\* the loops of detect_language from table entry k on
DetectFrom(code, k) ==
    IF k > Len(language_patterns) THEN None
    ELSE IF \E j \in 1..Len(language_patterns[k].patterns) :
                ReSearchFrom(language_patterns[k].patterns[j], code, 1, TRUE).ok
         THEN language_patterns[k].lang
         ELSE DetectFrom(code, k + 1)

\* detect_language(code)
detect_language(code) == DetectFrom(code, 1)

\* extract_imports(code, language); its patterns are searched with re.MULTILINE
extract_imports(code, language) ==
    LET Joined(count, all) ==
            IF count = 0 THEN <<>> ELSE IF count = 1 THEN all[1] ELSE all[1] \o all[2]
        Found(patterns) ==
            Joined(Len(patterns),
                   [k \in 1..Len(patterns) |-> ReFindAll(patterns[k], code, FALSE)])
    IN  Found(
        IF language = "python" THEN
            << <<Bol, Ws0, Lit("import"), Ws1, Rep(In(WordChars \cup {"."}), 1, 0, TRUE, TRUE)>>,
               <<Bol, Ws0, Lit("from"), Ws1, Rep(In(WordChars \cup {"."}), 1, 0, TRUE, TRUE), Ws1, Lit("import")>> >>
        ELSE IF language \in {"javascript", "typescript"} THEN
            << <<Bol, Ws0, Lit("import"), Ws1, Rep(Dot, 0, 0, TRUE, FALSE), Ws1, Lit("from"), Ws1, Rep(In({"'", "\""}), 1, 1, TRUE, FALSE), Rep(Dot, 1, 0, TRUE, TRUE), Rep(In({"'", "\""}), 1, 1, TRUE, FALSE)>>,
               <<Bol, Ws0, Lit("const"), Ws1, Rep(In(WordChars), 1, 0, TRUE, FALSE), Ws1, Lit("="), Ws1, Lit("require("), Rep(In({"'", "\""}), 1, 1, TRUE, FALSE), Rep(Dot, 1, 0, TRUE, TRUE), Rep(In({"'", "\""}), 1, 1, TRUE, FALSE), Lit(")")>> >>
        ELSE IF language \in {"java", "kotlin"} THEN
            << <<Bol, Ws0, Lit("import"), Ws1, Rep(In(WordChars \cup {"."}), 1, 0, TRUE, TRUE), Lit(";")>> >>
        ELSE IF language \in {"c", "cpp"} THEN
            << <<Bol, Ws0, Lit("#include"), Ws1, Rep(In({"<", "\""}), 1, 1, TRUE, FALSE), Rep(In(WordChars \cup {".", "/"}), 1, 0, TRUE, TRUE), Rep(In({">", "\""}), 1, 1, TRUE, FALSE)>> >>
        ELSE <<>>)

\* the dict framework_patterns of extract_code_metadata, in insertion order
framework_patterns ==
    << [framework |-> "django", patterns |-> <<"django">>],
       [framework |-> "flask", patterns |-> <<"flask">>],
       [framework |-> "react", patterns |-> <<"react">>],
       [framework |-> "angular", patterns |-> <<"@angular">>],
       [framework |-> "vue", patterns |-> <<"vue">>],
       [framework |-> "express", patterns |-> <<"express">>],
       [framework |-> "spring", patterns |-> <<"org.springframework">>] >>

RECURSIVE DetectFrameworks(_, _)
\* the framework loop of extract_code_metadata from entry k on
DetectFrameworks(imports, k) ==
    IF k > Len(framework_patterns) THEN <<>>
    ELSE (IF \E j \in 1..Len(framework_patterns[k].patterns) :
                 \E i \in 1..Len(imports) :
                     Contains(Lower(imports[i]), Lower(framework_patterns[k].patterns[j]))
          THEN <<framework_patterns[k].framework>> ELSE <<>>)
         \o DetectFrameworks(imports, k + 1)

\* extract_code_metadata(code)
extract_code_metadata(code) ==
    LET Metadata(language, imports) ==
            [language |-> language,
             imports |-> imports,
             frameworks |-> IF Falsy(language) THEN <<>> ELSE DetectFrameworks(imports, 1),
             code_length |-> Len(code),
             \* len(code.split("\n"))
             line_count |-> 1 + Cardinality({i \in 1..Len(code) : CharAt(code, i) = "\n"})]
        Detected(language) ==
            Metadata(language,
                     IF Falsy(language) THEN <<>> ELSE extract_imports(code, language))
    IN  Detected(detect_language(code))

\* the dict extension_map of save_code_to_file
extension_map ==
    [python |-> "py", javascript |-> "js", typescript |-> "ts", java |-> "java",
     c |-> "c", cpp |-> "cpp", csharp |-> "cs", php |-> "php", go |-> "go",
     ruby |-> "rb", rust |-> "rs", kotlin |-> "kt", swift |-> "swift",
     html |-> "html", css |-> "css", sql |-> "sql", txt |-> "txt"]

\* extension_map.get(language, "txt")
ExtensionOf(language) ==
    IF language \in DOMAIN extension_map THEN extension_map[language] ELSE "txt"

\* the directory os.path.join(<project root>, "data") that artifacts go to
data_dir == "/app/data"

\* os.path.join(directory, name), for a relative name
PathJoin(directory, name) == directory \o "/" \o name

\* os.path.splitext(path): the extension starts at the last dot of the last
\* path component, unless only dots come before it in that component
SplitExt(path) ==
    LET PositionsOf(c) == {i \in 1..Len(path) : CharAt(path, i) = c}
        seps == PositionsOf("/")
        sep == IF seps = {} THEN 0 ELSE Max(seps)
        dots == PositionsOf(".")
        dot == IF dots = {} THEN 0 ELSE Max(dots)
    IN  IF dot > sep /\ \E i \in (sep + 1)..(dot - 1) : CharAt(path, i) # "."
        THEN [root |-> Slice(path, 1, dot - 1), ext |-> From(path, dot)]
        ELSE [root |-> path, ext |-> ""]

\* datetime.datetime.now().strftime("%Y%m%d_%H%M%S") when the clock reads `now`
\* seconds after 2025-05-14 15:28:00
Timestamp(now) ==
    LET TwoDigits(n) == ToString(n \div 10) \o ToString(n % 10)
    IN  "20250514_15" \o TwoDigits(28 + (now \div 60)) \o TwoDigits(now % 60)

\* re.sub(r'[^\w\s]', '', s): s without the characters that are neither word
\* characters nor whitespace
RECURSIVE DropSpecial(_)
DropSpecial(s) ==
    IF s = "" THEN ""
    ELSE (IF Head(s) \in WordChars \cup PyWhitespace THEN Head(s) ELSE "")
         \o DropSpecial(Tail(s))

RECURSIVE ReplaceChar(_, _, _)
\* s.replace(c, d) for single characters
ReplaceChar(s, c, d) ==
    IF s = "" THEN ""
    ELSE (IF Head(s) = c THEN d ELSE Head(s)) \o ReplaceChar(Tail(s), c, d)

\* save_code_to_file(code, language, file_path, description) when the clock
\* reads `now` and writing the file succeeds (writeOk) or raises OSError.
\* Returns the dict and the write it made.
save_code_to_file(code, language, file_path, description, now, writeOk) ==
    LET OrTxt(detected) == IF Falsy(detected) THEN "txt" ELSE detected
        Written(lang, extension, full_path) ==
            IF writeOk
            THEN [info |-> [status |-> "success", file_path |-> full_path,
                            language |-> lang, extension |-> extension],
                  writes |-> <<Call("write_file", [path |-> full_path, content |-> code])>>]
            ELSE [info |-> [status |-> "error",
                            error |-> "[Errno 28] No space left on device"],
                  writes |-> <<>>]
        Named(lang, extension, timestamp, split) ==
            LET ext == IF split.ext = "" THEN "." \o extension ELSE split.ext
                filename ==
                    IF ~Falsy(description)
                    THEN ReplaceChar(Slice(DropSpecial(Lower(description)), 1, 30), " ", "_")
                         \o "_" \o timestamp
                    ELSE "code_" \o timestamp
            IN  Written(lang, extension,
                        IF ~Falsy(file_path)
                        THEN split.root \o "_" \o timestamp \o ext
                        ELSE PathJoin(data_dir, filename \o "." \o extension))
        InLanguage(lang) == Named(lang, ExtensionOf(lang), Timestamp(now), SplitExt(file_path))
    IN  InLanguage(IF Falsy(language) THEN OrTxt(detect_language(code)) ELSE language)

-----------------------------------------------------------------------------
(* prompts/code_prompts.py and the agent's system message                  *)

\* CODE_GENERATION_PROMPT.format(...): the template text with its slots filled
CODE_GENERATION_PROMPT(language, task_description, additional_context) ==
       "You are an expert software developer. Write code to solve the following task.\n\nLanguage: "
    \o language
    \o "\nTask: "
    \o task_description
    \o "\nAdditional Context: "
    \o additional_context
    \o "\n\nProvide well-documented, efficient, and readable code that follows best practices for the specified language.\nInclude comments to explain your approach and any important considerations.\n"

\* CODE_EXPLANATION_PROMPT.format(...): the template text with its slots filled
CODE_EXPLANATION_PROMPT(code, language) ==
       "Explain the following code in detail:\n\n" \o Fence \o ""
    \o language
    \o "\n"
    \o code
    \o "\n" \o Fence \o "\n\nYour explanation should include:\n1. A high-level overview of what the code does\n2. Explanation of key functions and their purposes\n3. Any notable design patterns or algorithms used\n4. Potential improvements or issues with the code\n"

\* CODE_REVIEW_PROMPT.format(...): the template text with its slots filled
CODE_REVIEW_PROMPT(code, language) ==
       "Review the following code and provide constructive feedback:\n\n" \o Fence \o ""
    \o language
    \o "\n"
    \o code
    \o "\n" \o Fence \o "\n\nYour review should include:\n1. Code quality assessment\n2. Potential bugs or edge cases\n3. Performance considerations\n4. Adherence to best practices\n5. Suggestions for improvement\n\nBe specific and provide examples where possible.\n"

\* CODE_REFACTORING_PROMPT.format(...): the template text with its slots filled
CODE_REFACTORING_PROMPT(code, language, refactoring_goals) ==
       "Refactor the following code according to the specified goals:\n\n" \o Fence \o ""
    \o language
    \o "\n"
    \o code
    \o "\n" \o Fence \o "\n\nRefactoring Goals: "
    \o refactoring_goals
    \o "\n\nProvide the refactored code along with an explanation of the changes you made and how they address the refactoring goals.\nFocus on improving code quality while maintaining functionality.\n"

\* BUG_FIXING_PROMPT.format(...): the template text with its slots filled
BUG_FIXING_PROMPT(code, language, bug_description, expected_behavior) ==
       "Fix the bug in the following code:\n\n" \o Fence \o ""
    \o language
    \o "\n"
    \o code
    \o "\n" \o Fence \o "\n\nBug Description: "
    \o bug_description
    \o "\nExpected Behavior: "
    \o expected_behavior
    \o "\n\nProvide the corrected code and explain the cause of the bug and how your solution fixes it.\n"

\* CODE_COMPLETION_PROMPT.format(...): the template text with its slots filled
CODE_COMPLETION_PROMPT(code_snippet, language, completion_instruction) ==
       "Complete the following code according to the instructions:\n\n" \o Fence \o ""
    \o language
    \o "\n"
    \o code_snippet
    \o "\n" \o Fence \o "\n\nInstructions: "
    \o completion_instruction
    \o "\n\nProvide the completed code that satisfies the instructions. Ensure the code is consistent with the existing code style and functionality.\n"

\* CodeAgent.system_message
system_message ==
    "\n"
    \o "        You are an AI Code Helper, an expert in software development with deep knowledge of programming languages,\n"
    \o "        frameworks, and best practices. Your goal is to assist software developers with writing, understanding,\n"
    \o "        and improving code through natural language interactions.\n"
    \o "        \n"
    \o "        You can:\n"
    \o "        1. Generate code based on descriptions\n"
    \o "        2. Explain existing code\n"
    \o "        3. Review code and provide feedback\n"
    \o "        4. Refactor code to improve quality\n"
    \o "        5. Fix bugs in code\n"
    \o "        6. Complete partial code snippets\n"
    \o "        7. Analyze code to extract metadata\n"
    \o "        8. Execute terminal commands to help with development tasks\n"
    \o "        \n"
    \o "        Respond in a helpful, clear, and concise manner.\n"
    \o "        "

-----------------------------------------------------------------------------
(* agents/code_agent.py: helpers of the dispatcher                         *)

SystemMessage(content) == [role |-> "system", content |-> content]
\* a user message that would carry the text without its surrounding whitespace
HumanMessageStripped(content) == [role |-> "human", content |-> Strip(content)]

HumanMessage(content) == [role |-> "human", content |-> content]
UserMessage(content) == [role |-> "user", content |-> content]

\* the messages every _generate_code, _explain_code, ... sends for its prompt
AgentMessages(prompt) == <<SystemMessage(system_message), HumanMessage(prompt)>>

\* the dict languages of _detect_language_from_request, in insertion order
request_languages ==
    << [lang |-> "python", keywords |-> <<"python", "py", "django", "flask", "pandas", "numpy">>],
       [lang |-> "javascript", keywords |-> <<"javascript", "js", "node", "express", "react", "angular", "vue">>],
       [lang |-> "typescript", keywords |-> <<"typescript", "ts", "angular", "react", "vue">>],
       [lang |-> "java", keywords |-> <<"java", "spring", "android">>],
       [lang |-> "c#", keywords |-> <<"c#", "csharp", ".net", "dotnet", "asp.net">>],
       [lang |-> "c++", keywords |-> <<"c++", "cpp">>],
       [lang |-> "go", keywords |-> <<"go", "golang">>],
       [lang |-> "ruby", keywords |-> <<"ruby", "rails">>],
       [lang |-> "php", keywords |-> <<"php", "laravel", "symfony">>],
       [lang |-> "rust", keywords |-> <<"rust", "cargo">>],
       [lang |-> "swift", keywords |-> <<"swift", "ios">>],
       [lang |-> "kotlin", keywords |-> <<"kotlin", "android">>],
       [lang |-> "html", keywords |-> <<"html", "web">>],
       [lang |-> "css", keywords |-> <<"css", "style", "stylesheet">>],
       [lang |-> "sql", keywords |-> <<"sql", "database", "query">>] >>

RECURSIVE DetectRequestLanguageFrom(_, _)
DetectRequestLanguageFrom(request_lower, k) ==
    IF k > Len(request_languages) THEN None
    ELSE IF \E j \in 1..Len(request_languages[k].keywords) :
                Contains(request_lower, request_languages[k].keywords[j])
         THEN request_languages[k].lang
         ELSE DetectRequestLanguageFrom(request_lower, k + 1)

\* CodeAgent._detect_language_from_request(request)
_detect_language_from_request(request) == DetectRequestLanguageFrom(Lower(request), 1)

\* `_detect_language_from_request(user_request) or "python"`
RequestLanguageOrPython(user_request) ==
    IF Falsy(_detect_language_from_request(user_request)) THEN "python"
    ELSE _detect_language_from_request(user_request)

\* the candidate list of the generate branch, in its order
generate_languages ==
    <<"python", "javascript", "typescript", "java", "c++", "c#", "go", "rust">>

\* the same loop without its break: the last candidate that occurs wins
GenerateLanguageLastCandidate(user_request) ==
    LET hits == {k \in 1..Len(generate_languages) :
                    Contains(Lower(user_request), generate_languages[k])}
    IN  IF hits = {} THEN "python" ELSE generate_languages[Max(hits)]

\* the loop of the generate branch: the first candidate that occurs in the
\* lower-cased request, "python" when none does
GenerateLanguage(user_request) ==
    LET hits == {k \in 1..Len(generate_languages) :
                    Contains(Lower(user_request), generate_languages[k])}
    IN  IF hits = {} THEN "python" ELSE generate_languages[Min(hits)]

\* the code between the first pair of fences of the request and the text after
\* the closing fence: code_start = find(fence), code_end = find(fence, code_start + 3)
FencedCode(user_request) ==
    LET code_start == Find(user_request, Fence, 0)
        code_end == IF code_start = -1 THEN -1
                    ELSE Find(user_request, Fence, code_start + 3)
    IN  IF code_end = -1 THEN [closed |-> FALSE, code |-> "", rest |-> ""]
        ELSE [closed |-> TRUE,
              code |-> Strip(Slice(user_request, code_start + 4, code_end)),
              rest |-> Strip(From(user_request, code_end + 4))]

RECURSIVE SplitWords(_, _)
\* s.split(): the maximal runs of non-whitespace characters (word: the run so far)
SplitWords(s, word) ==
    IF s = "" THEN (IF word = "" THEN <<>> ELSE <<word>>)
    ELSE IF Head(s) \in PyWhitespace
         THEN (IF word = "" THEN <<>> ELSE <<word>>) \o SplitWords(Tail(s), "")
         ELSE SplitWords(Tail(s), word \o Head(s))

RECURSIVE Join(_, _)
\* sep.join(parts)
Join(sep, parts) ==
    IF parts = <<>> THEN ""
    ELSE IF Len(parts) = 1 THEN parts[1]
    ELSE parts[1] \o sep \o Join(sep, Tail(parts))

\* the file prefix of the freeform branch: the first four words of the request,
\* those longer than two characters, lower-cased and joined by "_"
FreeformFilePrefix(user_request) ==
    LET words == SplitWords(user_request, "")
        first == SubSeq(words, 1, IF Len(words) < 4 THEN Len(words) ELSE 4)
        kept == SelectSeq(first, LAMBDA w : Len(w) > 2)
        request_summary == Join("_", [i \in 1..Len(kept) |-> Lower(kept[i])])
    IN  IF request_summary # "" THEN "code_" \o request_summary ELSE "unique_code"

\* what an answer of the chat model can be: a reply text, or the call raising
LLMFailureText == "Connection error."

\* a try body that would hand on the reply in lower case
BodyValueLowered(response, save_file_info, calls) ==
    [exc |-> FALSE, text |-> Lower(response), save_file_info |-> save_file_info,
     trace |-> calls,
     returns |-> FALSE, result |-> [status |-> None]]

\* what the body of process_request's try block comes to: a response text and
\* save_file_info, or an exception (exc) with its text; trace holds the calls made
BodyValue(response, save_file_info, calls) ==
    [exc |-> FALSE, text |-> response, save_file_info |-> save_file_info, trace |-> calls,
     returns |-> FALSE, result |-> [status |-> None]]
BodyRaise(text, calls) ==
    [exc |-> TRUE, text |-> text, save_file_info |-> [status |-> None],
     trace |-> Append(calls, Call("raise", text)),
     returns |-> FALSE, result |-> [status |-> None]]

\* save_file_info = None
NoFileInfo == [status |-> None]

-----------------------------------------------------------------------------
(* agents/code_agent.py: the terminal and install-libraries branches       *)

\* CodeAgent._execute_terminal_command(command) when running the command comes
\* to `outcome`: the dict returned and the calls made
_execute_terminal_command(command, outcome) ==
    IF Strip(command) = "" THEN
        [result |-> [status |-> "error", error_message |-> "No command provided"],
         trace |-> <<>>]
    ELSE IF ~is_safe_command(command) THEN
        LET safe_alternatives == suggest_safe_alternatives(command)
        IN
        [result |->
            [status |-> "error",
             error_message |-> "The command '" \o command
                \o "' may be potentially dangerous and has been blocked for safety reasons.",
             additional_info |-> "Suggestions:\n"
                \o Join("\n", [i \in 1..Len(safe_alternatives) |->
                                    "- " \o safe_alternatives[i]])],
         trace |-> <<Call("is_safe_command", command),
                     Call("suggest_safe_alternatives", command)>>]
    ELSE
        LET res == execute_command(command, DefaultTimeout, outcome)
            calls == <<Call("is_safe_command", command), Call("execute_command", command)>>
        IN  IF res.status = "success" THEN
                [result |-> [status |-> "success",
                             response |-> "Command executed successfully:\n\n" \o Fence \o "\n"
                                          \o res.stdout \o "\n" \o Fence],
                 trace |-> calls]
            ELSE
                [result |-> [status |-> "error",
                             error_message |-> "Command execution failed with exit code "
                                \o ToString(res.exit_code) \o ":\n\n" \o Fence \o "\n"
                                \o res.stderr \o "\n" \o Fence],
                 trace |-> calls]

\* the two patterns the workflows take a fenced list or script with
PythonFencePattern ==
    <<Lit(Fence), OptLit("python"), Ws0, Rep(AnyChar, 0, 0, FALSE, TRUE), Lit("\n" \o Fence)>>
PlainFencePattern ==
    <<Lit(Fence), Ws0, Rep(AnyChar, 0, 0, FALSE, TRUE), Lit("\n" \o Fence)>>

\* blocks = re.findall(first, text); if not blocks: blocks = re.findall(second, text);
\* blocks[0].strip() if blocks else text.strip()
FirstBlockOrText(first, second, text) ==
    LET Chosen(blocks) ==
            IF blocks[1] # <<>> THEN Strip(blocks[1][1])
            ELSE IF blocks[2] # <<>> THEN Strip(blocks[2][1])
            ELSE Strip(text)
    IN  Chosen([k \in 1..2 |-> ReFindAll(IF k = 1 THEN first ELSE second, text, FALSE)])

\* CodeAgent._install_required_libraries(user_request): the model answers
\* `reply`, the clock reads `now`, writing the requirements file succeeds or not,
\* the installer run comes to `outcome`
_install_required_libraries(user_request, reply, now, writeOk, outcome) ==
    LET \* the prompt (its Turkish text in ASCII letters)
        prompt ==
            "\n            Asagidaki istek icin gerekli Python kutuphanelerini tespit et ve "
            \o "requirements.txt formatinda sadece kutuphane isimlerini dondur.\n"
            \o "            Sadece kod blogu icinde kutuphane isimlerini yaz, baska aciklama ekleme.\n"
            \o "            \n            Istek: " \o user_request \o "\n            "
        messages == <<UserMessage(prompt)>>
        asked == <<Call("llm.invoke", messages)>>
        Installed(requirements, req_path, pip_cmd, res) ==
            IF ~writeOk THEN
                [result |-> [status |-> "error",
                             error_message |-> "[Errno 28] No space left on device"],
                 trace |-> Append(asked, Call("raise", "[Errno 28] No space left on device"))]
            ELSE
                [result |->
                    [status |-> "success",
                     requirements_path |-> req_path,
                     stdout |-> Get(res, "stdout"),
                     stderr |-> Get(res, "stderr"),
                     message |-> "Gerekli kutuphaneler tespit edildi ve kuruldu.\n\n"
                                 \o "Kurulan kutuphaneler:\n" \o requirements],
                 trace |-> asked \o
                           <<Call("write_file", [path |-> req_path, content |-> requirements]),
                             Call("execute_command", pip_cmd)>>]
        Pip(requirements, req_path, pip_cmd) ==
            Installed(requirements, req_path, pip_cmd, execute_command(pip_cmd, 180, outcome))
        Extracted(requirements, req_path) ==
            Pip(requirements, req_path, "pip install -r " \o req_path)
    IN
    IF ~reply.ok THEN
        [result |-> [status |-> "error", error_message |-> reply.content],
         trace |-> Append(asked, Call("raise", reply.content))]
    ELSE
        Extracted(FirstBlockOrText(PythonFencePattern, PlainFencePattern, reply.content),
                  PathJoin(data_dir, "requirements_" \o Timestamp(now) \o ".txt"))

-----------------------------------------------------------------------------
(* agents/code_agent.py: process_request                                   *)

\* the prefixes and keywords the chain of process_request tests for
command_prefixes == <<"!cmd", "!run", "!terminal">>
install_keywords == <<"kütüphane", "library", "kur", "install", "yükle", "gerekli">>

\* the if / elif chain of process_request: the branch that handles the request.
\* The prefix test reads the request as given, every later test its lower-cased text.
ClassifyIntent(user_request) ==
    LET Rule(low) ==
            IF \E k \in 1..Len(command_prefixes) :
                    StartsWith(user_request, command_prefixes[k])
                THEN "terminal-command"
            ELSE IF \E k \in 1..Len(install_keywords) : Contains(low, install_keywords[k])
                THEN "install-libraries"
            ELSE IF Contains(low, "generate code") \/ Contains(low, "create code")
                THEN "generate-code"
            ELSE IF Contains(low, "explain") /\ Contains(low, "code")
                THEN "explain-code"
            ELSE IF Contains(low, "review") /\ Contains(low, "code")
                THEN "review-code"
            ELSE IF Contains(low, "refactor")
                THEN "refactor-code"
            ELSE IF Contains(low, "fix") /\ (Contains(low, "bug") \/ Contains(low, "error"))
                THEN "fix-bug"
            ELSE IF Contains(low, "complete") \/ Contains(low, "finish")
                THEN "complete-code"
            ELSE IF Contains(low, "analyze")
                THEN "analyze-code"
            ELSE "freeform"
    IN  Rule(Lower(user_request))

\* `user_request.split(" ", 1)[1] if " " in user_request else ""`
CommandOfRequest(user_request) ==
    IF Contains(user_request, " ")
    THEN From(user_request, Find(user_request, " ", 0) + 2)
    ELSE ""

\* the message a branch answers with when the request holds no closed fence
PleaseProvide(purpose) ==
    "Please provide code within triple backticks (" \o Fence \o ") for " \o purpose \o "."

\* an agent that would ask the chat model again after its answer
AskModelTwice(prompt, reply) ==
    [ok |-> reply.ok, content |-> reply.content,
     trace |-> <<Call("llm.invoke", AgentMessages(prompt)),
                 Call("llm.invoke", AgentMessages(prompt))>>]

\* one call of the chat model with the agent's messages for `prompt`, then
\* `after` applied to the reply text; the call raising ends the try block
AskModel(prompt, reply) ==
    [ok |-> reply.ok, content |-> reply.content,
     trace |-> <<Call("llm.invoke", AgentMessages(prompt))>>]

\* the generate branch: _generate_code, then the first fenced block is saved
GenerateBranch(user_request, reply, now, writeOk) ==
    LET language == GenerateLanguage(user_request)
        asked == AskModel(CODE_GENERATION_PROMPT(language, user_request, ""), reply)
        Saved(code_to_save, unique_file_path, saved) ==
            BodyValue(asked.content, saved.info,
                      asked.trace
                      \o <<Call("save_code_to_file",
                                [code |-> code_to_save, language |-> language,
                                 file_path |-> unique_file_path])>>
                      \o saved.writes)
        Save(code_to_save, unique_file_path) ==
            Saved(code_to_save, unique_file_path,
                  save_code_to_file(code_to_save, language, unique_file_path,
                                    None, now, writeOk))
        Replied(code_blocks) ==
            IF ~asked.ok THEN BodyRaise(asked.content, asked.trace)
            ELSE IF code_blocks = <<>> THEN BodyValue(asked.content, NoFileInfo, asked.trace)
            ELSE Save(Strip(code_blocks[1].body),
                      PathJoin(data_dir, "generated_code_" \o Timestamp(now) \o ".py"))
    IN  Replied(FindCodeBlocks(asked.content))

\* the explain branch as it would be without the test of the closing fence:
\* the model is asked about whatever follows the opening fence
ExplainBranchWithoutFenceTest(user_request, reply) ==
    LET fenced == FencedCode(user_request)
        asked == AskModel(CODE_EXPLANATION_PROMPT(fenced.code,
                              RequestLanguageOrPython(user_request)), reply)
    IN  IF ~asked.ok THEN BodyRaise(asked.content, asked.trace)
        ELSE BodyValue(asked.content, NoFileInfo, asked.trace)

\* the explain branch: _explain_code on the fenced code; nothing is saved
ExplainBranch(user_request, reply) ==
    LET fenced == FencedCode(user_request)
        asked == AskModel(CODE_EXPLANATION_PROMPT(fenced.code,
                              RequestLanguageOrPython(user_request)), reply)
    IN  IF ~fenced.closed THEN BodyValue(PleaseProvide("explanation"), NoFileInfo, <<>>)
        ELSE IF ~asked.ok THEN BodyRaise(asked.content, asked.trace)
        ELSE BodyValue(asked.content, NoFileInfo, asked.trace)

\* the review branch: _review_code on the fenced code; nothing is saved
ReviewBranch(user_request, reply) ==
    LET fenced == FencedCode(user_request)
        asked == AskModel(CODE_REVIEW_PROMPT(fenced.code,
                              RequestLanguageOrPython(user_request)), reply)
    IN  IF ~fenced.closed THEN BodyValue(PleaseProvide("review"), NoFileInfo, <<>>)
        ELSE IF ~asked.ok THEN BodyRaise(asked.content, asked.trace)
        ELSE BodyValue(asked.content, NoFileInfo, asked.trace)

\* what the refactor, fix-bug and complete branches do with a reply: with a
\* fenced block in it, the file name is built from extension_map, a local
\* variable that only the freeform branch assigns, so reading it raises
\* UnboundLocalError before save_code_to_file is reached
SaveAfterReply(asked) ==
    IF ~asked.ok THEN BodyRaise(asked.content, asked.trace)
    ELSE IF FindCodeBlocks(asked.content) = <<>>
         THEN BodyValue(asked.content, NoFileInfo, asked.trace)
    ELSE BodyRaise("cannot access local variable 'extension_map' where it is not "
                   \o "associated with a value", asked.trace)

\* the refactor branch
RefactorBranch(user_request, reply) ==
    LET fenced == FencedCode(user_request)
        refactoring_part ==
            IF fenced.rest = ""
            THEN "Improve code quality, readability, and maintainability."
            ELSE fenced.rest
        asked == AskModel(CODE_REFACTORING_PROMPT(fenced.code,
                              RequestLanguageOrPython(user_request), refactoring_part),
                          reply)
    IN  IF ~fenced.closed THEN BodyValue(PleaseProvide("refactoring"), NoFileInfo, <<>>)
        ELSE SaveAfterReply(asked)

\* the fix-bug branch
FixBugBranch(user_request, reply) ==
    LET fenced == FencedCode(user_request)
        bug_part == IF fenced.rest = "" THEN "Fix the bug in the code." ELSE fenced.rest
        asked == AskModel(BUG_FIXING_PROMPT(fenced.code,
                              RequestLanguageOrPython(user_request), bug_part,
                              "The code should work correctly."),
                          reply)
    IN  IF ~fenced.closed THEN BodyValue(PleaseProvide("bug fixing"), NoFileInfo, <<>>)
        ELSE SaveAfterReply(asked)

\* the complete branch
CompleteBranch(user_request, reply) ==
    LET fenced == FencedCode(user_request)
        completion_part ==
            IF fenced.rest = ""
            THEN "Complete the code according to best practices."
            ELSE fenced.rest
        asked == AskModel(CODE_COMPLETION_PROMPT(fenced.code,
                              RequestLanguageOrPython(user_request), completion_part),
                          reply)
    IN  IF ~fenced.closed THEN BodyValue(PleaseProvide("completion"), NoFileInfo, <<>>)
        ELSE SaveAfterReply(asked)

RECURSIVE BulletLines(_)
\* "- x\n" for every x of items
BulletLines(items) ==
    IF items = <<>> THEN "" ELSE "- " \o Head(items) \o "\n" \o BulletLines(Tail(items))

\* the report of the analyze branch
AnalysisReport(metadata) ==
    "Code Analysis Results:\n\n"
    \o "Language: " \o metadata.language \o "\n"
    \o "Lines of Code: " \o ToString(metadata.line_count) \o "\n"
    \o (IF metadata.imports # <<>>
        THEN "\nImports:\n" \o BulletLines(metadata.imports) ELSE "")
    \o (IF metadata.frameworks # <<>>
        THEN "\nFrameworks Detected:\n" \o BulletLines(metadata.frameworks) ELSE "")

\* the analyze branch: _analyze_code on the fenced code, no model call
AnalyzeBranch(user_request) ==
    LET fenced == FencedCode(user_request)
    IN  IF ~fenced.closed THEN BodyValue(PleaseProvide("analysis"), NoFileInfo, <<>>)
        ELSE BodyValue(AnalysisReport(extract_code_metadata(fenced.code)), NoFileInfo, <<>>)

\* the freeform branch: the raw request goes to the model with the system
\* message; the first fenced block of the reply is saved
FreeformBranch(user_request, reply, now, writeOk) ==
    LET messages == <<SystemMessage(system_message), HumanMessage(user_request)>>
        asked == <<Call("llm.invoke", messages)>>
        Saved(code_to_save, lang, unique_file_path, saved) ==
            BodyValue(reply.content, saved.info,
                      asked
                      \o <<Call("save_code_to_file",
                                [code |-> code_to_save, language |-> lang,
                                 file_path |-> unique_file_path])>>
                      \o saved.writes)
        Save(code_to_save, lang, unique_file_path) ==
            Saved(code_to_save, lang, unique_file_path,
                  save_code_to_file(code_to_save, lang, unique_file_path, None, now, writeOk))
        InLanguage(code_to_save, lang) ==
            Save(code_to_save, lang,
                 PathJoin(data_dir, FreeformFilePrefix(user_request) \o "_" \o Timestamp(now)
                                    \o "." \o ExtensionOf(lang)))
        Tagged(code_to_save, tag) == InLanguage(code_to_save, IF tag # "" THEN tag ELSE None)
        Replied(code_blocks) ==
            IF ~reply.ok THEN BodyRaise(reply.content, asked)
            ELSE IF code_blocks = <<>> THEN BodyValue(reply.content, NoFileInfo, asked)
            ELSE Tagged(Strip(code_blocks[1].body), Strip(code_blocks[1].tag))
    IN  Replied(FindCodeBlocks(reply.content))

\* the try block of process_request for a request of intent `which`
RequestBody(which, user_request, env, now) ==
    LET \* a branch that returns its own dict from inside the try block
        BodyReturn(returned) ==
            [exc |-> FALSE, text |-> "", save_file_info |-> NoFileInfo,
             trace |-> returned.trace, returns |-> TRUE, result |-> returned.result]
    IN  CASE which = "terminal-command" ->
                BodyReturn(_execute_terminal_command(CommandOfRequest(user_request),
                                                     env.outcome))
          [] which = "install-libraries" ->
                BodyReturn(_install_required_libraries(user_request, env.reply, now,
                                                       env.writeOk, env.outcome))
          [] which = "generate-code" ->
                GenerateBranch(user_request, env.reply, now, env.writeOk)
          [] which = "explain-code" -> ExplainBranch(user_request, env.reply)
          [] which = "review-code" -> ReviewBranch(user_request, env.reply)
          [] which = "refactor-code" -> RefactorBranch(user_request, env.reply)
          [] which = "fix-bug" -> FixBugBranch(user_request, env.reply)
          [] which = "complete-code" -> CompleteBranch(user_request, env.reply)
          [] which = "analyze-code" -> AnalyzeBranch(user_request)
          [] OTHER -> FreeformBranch(user_request, env.reply, now, env.writeOk)

\* the end of process_request as it would be without the except clause: an
\* exception of the try block reaches the caller
FinishRequestWithoutExcept(body) ==
    IF body.exc THEN [result |-> [status |-> None], raised |-> TRUE, trace |-> body.trace]
    ELSE IF body.returns
    THEN [result |-> body.result, raised |-> FALSE, trace |-> body.trace]
    ELSE [result |-> [status |-> "success", response |-> body.text,
                      file_info |-> body.save_file_info],
          raised |-> FALSE, trace |-> body.trace]

\* the end of process_request: the note about the saved file is added to the
\* response; `except Exception` turns an exception of the try block into an
\* error result
FinishRequest(body) ==
    IF body.exc THEN
        [result |-> [status |-> "error", error_message |-> body.text], raised |-> FALSE,
         trace |-> body.trace]
    ELSE IF body.returns THEN
        [result |-> body.result, raised |-> FALSE, trace |-> body.trace]
    ELSE
        [result |->
            [status |-> "success",
             response |-> IF body.save_file_info.status = "success"
                          THEN body.text \o "\n\n[Code saved to file: "
                               \o body.save_file_info.file_path \o "]"
                          ELSE body.text,
             file_info |-> body.save_file_info],
         raised |-> FALSE, trace |-> body.trace]

\* CodeAgent.process_request(user_request)
process_request(user_request, env, now) ==
    FinishRequest(RequestBody(ClassifyIntent(user_request), user_request, env, now))

-----------------------------------------------------------------------------
(* agents/code_agent.py: the prompts of the project workflows              *)

\* the prompt of generate_project (its Turkish text in ASCII letters)
project_structure_prompt(project_description) ==
    "\n"
    \o "            Asagidaki proje icin gerekli dosya yapisini ve her dosyanin icerig"
    \o "ini olustur.\n"
    \o "            Ozellikle dikkat et: Projenin calismasi icin gerekli TUM kutuphane"
    \o "leri requirements.txt'ye ekle.\n"
    \o "            \n"
    \o "            Proje Aciklamasi: "
    \o project_description
    \o "\n"
    \o "            \n"
    \o "            Yanitini su formatta ver:\n"
    \o "            ~~~json\n"
    \o "            {\n"
    \o "                \"proje_aciklamasi\": \"Projenin kisa aciklamasi\",\n"
    \o "                \"dosyalar\": [\n"
    \o "                    {\n"
    \o "                        \"dosya_adi\": \"requirements.txt\",\n"
    \o "                        \"icerik\": \"numpy==1.19.5\n"
    \o "pandas==1.3.0\n"
    \o "...\"\n"
    \o "                    },\n"
    \o "                    {\n"
    \o "                        \"dosya_adi\": \"main.py\",\n"
    \o "                        \"icerik\": \"import numpy as np\n"
    \o "...tum kod...\"\n"
    \o "                    }\n"
    \o "                ],\n"
    \o "                \"kurulum_komutlari\": [\"pip install -r requirements.txt\"],\n"
    \o "                \"calistirma_komutlari\": [\"python main.py\"]\n"
    \o "            }\n"
    \o "            ~~~\n"
    \o "            \n"
    \o "            ONEMLI:\n"
    \o "            1. requirements.txt'ye projenin calismasi icin gerekli TUM kutupha"
    \o "neleri ekle\n"
    \o "            2. Her kutuphane icin spesifik versiyon numarasi belirt\n"
    \o "            3. Kodun tamamen calisir durumda oldugundan emin ol\n"
    \o "            4. Ornek veya placeholder kod degil, gercek calisan kod olmali\n"
    \o "            "

\* the first prompt of generate_full_project_workflow (Turkish text in ASCII letters)
req_prompt(user_request) ==
    "Asagidaki istek icin gerekli Python kutuphanelerini requirements.txt formatind"
    \o "a dondur.\n"
    \o "        SADECE kutuphane isimlerini yaz, baska hicbir sey ekleme.\n"
    \o "        \n"
    \o "        ONEMLI KURALLAR:\n"
    \o "        1. Sadece kutuphane isimleri olmali\n"
    \o "        2. Her satirda bir kutuphane olmali\n"
    \o "        3. pip install, !pip install gibi komut ifadeleri KULLANMA\n"
    \o "        4. Baska aciklama veya metin EKLEME\n"
    \o "        5. Sadece gecerli PyPI paket adlarini yaz\n"
    \o "        6. sklearn yerine scikit-learn kullan\n"
    \o "        \n"
    \o "        Ornek format:\n"
    \o "        xgboost\n"
    \o "        pandas\n"
    \o "        scikit-learn\n"
    \o "        numpy\n"
    \o "\n"
    \o "        Istek: "
    \o user_request

\* the second prompt of generate_full_project_workflow
code_prompt(user_request) ==
    "Sadece kod blogu olarak, "
    \o user_request
    \o " icin calisan bir python kodu uret. Kodun basina ve sonuna aciklama ekleme. Do"
    \o "sya adi: model.py"

-----------------------------------------------------------------------------
(* agents/code_agent.py: generate_project                                  *)

RECURSIVE SubNonWordRuns(_, _)
\* re.sub(r'[^\w]+', '_', s): every run of non-word characters becomes one "_"
\* (inRun: the character before s was part of such a run)
SubNonWordRuns(s, inRun) ==
    IF s = "" THEN ""
    ELSE IF Head(s) \in WordChars THEN Head(s) \o SubNonWordRuns(Tail(s), FALSE)
    ELSE (IF inRun THEN "" ELSE "_") \o SubNonWordRuns(Tail(s), TRUE)

\* the pattern generate_project searches the reply with
JsonFencePattern ==
    <<Lit(Fence \o "json"), Ws0, Rep(AnyChar, 0, 0, FALSE, TRUE), Ws0, Lit(Fence)>>

\* JSON texts a reply can carry (keys in ASCII letters) and the text that is no JSON
JsonWithRequirements ==
    "{\"dosyalar\": [{\"dosya_adi\": \"requirements.txt\", \"icerik\": \"numpy\"}, "
    \o "{\"dosya_adi\": \"main.py\", \"icerik\": \"print(1)\"}], "
    \o "\"kurulum_komutlari\": [\"npm i\"], "
    \o "\"calistirma_komutlari\": [\"python main.py\", \"rm -rf build\"]}"
JsonInstallOnly ==
    "{\"dosyalar\": [{\"dosya_adi\": \"main.py\", \"icerik\": \"x = 1\"}], "
    \o "\"kurulum_komutlari\": [\"make deps\"]}"
JsonRunOnly ==
    "{\"dosyalar\": [], \"calistirma_komutlari\": [\"sudo python main.py\"]}"

\* json.loads(text) for the texts above: the value, or the JSONDecodeError
json_loads(text) ==
    IF text = JsonWithRequirements THEN
        [ok |-> TRUE, error |-> "",
         value |-> [dosyalar |-> <<[dosya_adi |-> "requirements.txt", icerik |-> "numpy"],
                                   [dosya_adi |-> "main.py", icerik |-> "print(1)"]>>,
                    kurulum_komutlari |-> <<"npm i">>,
                    calistirma_komutlari |-> <<"python main.py", "rm -rf build">>]]
    ELSE IF text = JsonInstallOnly THEN
        [ok |-> TRUE, error |-> "",
         value |-> [dosyalar |-> <<[dosya_adi |-> "main.py", icerik |-> "x = 1"]>>,
                    kurulum_komutlari |-> <<"make deps">>,
                    calistirma_komutlari |-> <<>>]]
    ELSE IF text = JsonRunOnly THEN
        [ok |-> TRUE, error |-> "",
         value |-> [dosyalar |-> <<>>,
                    kurulum_komutlari |-> <<>>,
                    calistirma_komutlari |-> <<"sudo python main.py">>]]
    ELSE
        [ok |-> FALSE,
         error |-> "Expecting property name enclosed in double quotes: line 1 column 2 (char 1)",
         value |-> [dosyalar |-> <<>>, kurulum_komutlari |-> <<>>,
                    calistirma_komutlari |-> <<>>]]

\* what the model of generate_project's except clause returns
ProjectError(text, calls) ==
    [result |-> [status |-> "error", error_message |-> text], raised |-> FALSE,
     trace |-> Append(calls, Call("raise", text))]

\* one entry of installation_results / execution_results
CommandReport(command, res) ==
    [command |-> command, success |-> (res.status = "success"),
     output |-> IF res.status = "success" THEN res.stdout ELSE res.stderr]

RECURSIVE WriteProjectFiles(_, _, _)
\* the loop over project_spec["dosyalar"]: the writes made and the paths created
WriteProjectFiles(files, project_dir, k) ==
    IF k > Len(files) THEN <<>>
    ELSE <<[path |-> project_dir \o "/" \o files[k].dosya_adi, content |-> files[k].icerik]>>
         \o WriteProjectFiles(files, project_dir, k + 1)

RECURSIVE RunInstallCommands(_, _, _, _, _)
\* the loop over the install commands other than pip_cmd: it stops at the first
\* command that fails.  outcomes[n + 1] is the outcome of the next run.
RunInstallCommands(commands, k, pip_cmd, outcomes, n) ==
    IF k > Len(commands) THEN [failed |-> FALSE, stderr |-> "", reports |-> <<>>, runs |-> <<>>]
    ELSE IF commands[k] = pip_cmd
         THEN RunInstallCommands(commands, k + 1, pip_cmd, outcomes, n)
    ELSE
        LET res == execute_command(commands[k], DefaultTimeout, outcomes[n + 1])
            later == RunInstallCommands(commands, k + 1, pip_cmd, outcomes, n + 1)
        IN  IF res.status # "success"
            THEN [failed |-> TRUE, stderr |-> res.stderr,
                  reports |-> <<CommandReport(commands[k], res)>>,
                  runs |-> <<Call("execute_command", commands[k])>>]
            ELSE [failed |-> later.failed, stderr |-> later.stderr,
                  reports |-> <<CommandReport(commands[k], res)>> \o later.reports,
                  runs |-> <<Call("execute_command", commands[k])>> \o later.runs]

\* the loop over the run commands: every command is run, whatever the others gave
RunCommands(commands, outcomes, n) ==
    [reports |-> [k \in 1..Len(commands) |->
                    CommandReport(commands[k],
                        execute_command(commands[k], DefaultTimeout, outcomes[n + k]))],
     runs |-> [k \in 1..Len(commands) |-> Call("execute_command", commands[k])]]

\* CodeAgent.generate_project(project_description): the model answers `reply`,
\* the clock reads `now`, writing a file succeeds or not, the k-th command run
\* comes to outcomes[k]
generate_project(project_description, reply, now, writeOk, outcomes) ==
    LET Built(project_dir, project_spec, files, written, has_req, pip_cmd, pip_runs, pip_res,
              installs) ==
            LET req_content ==
                    LET hits == {k \in 1..Len(project_spec.dosyalar) :
                                    project_spec.dosyalar[k].dosya_adi = "requirements.txt"}
                    IN  project_spec.dosyalar[Min(hits)].icerik
                Executed(runs) ==
                    [result |->
                        [status |-> "success",
                         project_dir |-> project_dir,
                         created_files |-> [k \in 1..Len(files) |-> files[k].path],
                         installation_results |->
                            (IF has_req THEN <<CommandReport(pip_cmd, pip_res)>> ELSE <<>>)
                            \o installs.reports,
                         execution_results |-> runs.reports,
                         project_spec |-> project_spec,
                         message |-> "Proje basariyla olusturuldu ve calistirildi!\n\n"
                                     \o "Proje dizini: "
                                     \o project_dir \o "\n\nKurulan kutuphaneler:\n"
                                     \o (IF has_req THEN req_content
                                         ELSE "Kutuphane kurulumu yapilmadi")],
                     raised |-> FALSE,
                     trace |-> written \o pip_runs \o installs.runs \o runs.runs]
            IN  IF has_req /\ pip_res.status # "success" THEN
                    [result |-> [status |-> "error",
                                 error_message |-> "Kutuphane kurulumu basarisiz: "
                                                   \o pip_res.stderr],
                     raised |-> FALSE, trace |-> written \o pip_runs]
                ELSE IF ~has_req /\ project_spec.kurulum_komutlari # <<>>
                     \* `command != pip_cmd` reads pip_cmd, which was never assigned
                     THEN ProjectError("cannot access local variable 'pip_cmd' where it is "
                                       \o "not associated with a value", written)
                ELSE IF installs.failed THEN
                    [result |-> [status |-> "error",
                                 error_message |-> "Komut basarisiz: " \o installs.stderr],
                     raised |-> FALSE, trace |-> written \o pip_runs \o installs.runs]
                ELSE Executed(RunCommands(project_spec.calistirma_komutlari, outcomes,
                                          Len(pip_runs) + Len(installs.runs)))
        Installing(project_dir, project_spec, files, written, has_req, pip_cmd, pip_runs) ==
            Built(project_dir, project_spec, files, written, has_req, pip_cmd, pip_runs,
                  execute_command(pip_cmd, 300, outcomes[1]),
                  RunInstallCommands(project_spec.kurulum_komutlari, 1, pip_cmd, outcomes,
                                     Len(pip_runs)))
        Written(project_dir, asked, project_spec, files, has_req, pip_cmd) ==
            Installing(project_dir, project_spec, files,
                       asked \o [k \in 1..Len(files) |-> Call("write_file", files[k])],
                       has_req, pip_cmd,
                       IF has_req THEN <<Call("execute_command", pip_cmd)>> ELSE <<>>)
        Specified(project_dir, asked, project_spec) ==
            IF project_spec.dosyalar # <<>> /\ ~writeOk
            THEN ProjectError("[Errno 28] No space left on device", asked)
            ELSE Written(project_dir, asked, project_spec,
                         WriteProjectFiles(project_spec.dosyalar, project_dir, 1),
                         \E k \in 1..Len(project_spec.dosyalar) :
                            project_spec.dosyalar[k].dosya_adi = "requirements.txt",
                         "pip install -r " \o project_dir \o "/requirements.txt")
        Loaded(project_dir, asked, loaded) ==
            IF ~loaded.ok THEN ProjectError(loaded.error, asked)
            ELSE Specified(project_dir, asked, loaded.value)
        Matched(project_dir, asked, json_match) ==
            IF ~json_match.ok
            THEN ProjectError("AI yanitindan JSON yapisi cikartilamadi", asked)
            ELSE Loaded(project_dir, asked, json_loads(json_match.cap))
        Asked(project_dir, asked) ==
            IF ~reply.ok THEN ProjectError(reply.content, asked)
            ELSE Matched(project_dir, asked,
                         ReSearchFrom(JsonFencePattern, reply.content, 1, FALSE))
        Made(project_dir) ==
            Asked(project_dir,
                  <<Call("create_directory", project_dir),
                    Call("llm.invoke",
                         AgentMessages(project_structure_prompt(project_description)))>>)
        Named(project_name, timestamp) == Made("projects/" \o project_name \o "_" \o timestamp)
    IN  Named(Slice(SubNonWordRuns(Lower(project_description), FALSE), 1, 30), Timestamp(now))

-----------------------------------------------------------------------------
(* agents/code_agent.py: generate_full_project_workflow                    *)

RECURSIVE SplitOn(_, _)
\* s.split(sep)
SplitOn(s, sep) ==
    LET i == Find(s, sep, 0)
    IN  IF i = -1 THEN <<s>>
        ELSE <<Slice(s, 1, i)>> \o SplitOn(From(s, i + Len(sep) + 1), sep)

\* the loop over requirements_lines: valid_requirements before duplicates go
ValidRequirements(requirements_lines) ==
    LET install_phrases == <<"pip install", "!pip", "install">>
        \* the text before a version specifier, with sklearn renamed
        PackageOf(line) ==
            LET package == Strip(SplitOn(SplitOn(SplitOn(line, "==")[1], ">=")[1], "<=")[1])
            IN  IF package = "sklearn" THEN "scikit-learn" ELSE package
        lines == [k \in 1..Len(requirements_lines) |-> Strip(requirements_lines[k])]
        kept == SelectSeq(lines, LAMBDA line :
                    /\ line # ""
                    /\ ~\E k \in 1..Len(install_phrases) :
                            Contains(Lower(line), install_phrases[k]))
    IN  [k \in 1..Len(kept) |-> PackageOf(kept[k])]

RECURSIVE WithoutDuplicates(_, _)
\* [x for x in xs if not (x in seen or seen.add(x))]
WithoutDuplicates(xs, seen) ==
    IF xs = <<>> THEN <<>>
    ELSE IF Head(xs) \in seen THEN WithoutDuplicates(Tail(xs), seen)
    ELSE <<Head(xs)>> \o WithoutDuplicates(Tail(xs), seen \cup {Head(xs)})

\* the dependency list the workflow writes for the model's answer req_result
SanitizedRequirements(req_result) ==
    LET requirements == FirstBlockOrText(PythonFencePattern, PlainFencePattern, req_result)
    IN  Join("\n", WithoutDuplicates(ValidRequirements(SplitOn(requirements, "\n")), {}))

max_retries == 3
retry_delay == 5

RECURSIVE PipAttemptsWithoutBreak(_, _, _)
\* the retry loop without its break: every attempt is made, successful or not
PipAttemptsWithoutBreak(pip_cmd, outcomes, attempt) ==
    LET pip_result == execute_command(pip_cmd, 300, outcomes[attempt + 1])
        ran == <<Call("execute_command", pip_cmd)>>
    IN  IF attempt < max_retries - 1 THEN
            LET later == PipAttemptsWithoutBreak(pip_cmd, outcomes, attempt + 1)
            IN  [pip_result |-> later.pip_result,
                 calls |-> ran \o <<Call("sleep", retry_delay)>> \o later.calls]
        ELSE [pip_result |-> pip_result, calls |-> ran]

RECURSIVE PipAttempts(_, _, _)
\* the retry loop from attempt number `attempt` (0-based) on: the calls made
\* and the result of the last attempt
PipAttempts(pip_cmd, outcomes, attempt) ==
    LET pip_result == execute_command(pip_cmd, 300, outcomes[attempt + 1])
        ran == <<Call("execute_command", pip_cmd)>>
    IN  IF pip_result.status = "success" THEN [pip_result |-> pip_result, calls |-> ran]
        ELSE IF attempt < max_retries - 1 THEN
            LET later == PipAttempts(pip_cmd, outcomes, attempt + 1)
            IN  [pip_result |-> later.pip_result,
                 calls |-> ran \o <<Call("sleep", retry_delay)>> \o later.calls]
        ELSE [pip_result |-> pip_result, calls |-> ran]

\* a fallback that would give up after the first package
FallbackPackagesFirstOnly(pip_result, requirements_list) ==
    IF pip_result.status # "success" /\ Strip(requirements_list[1]) # ""
    THEN <<Strip(requirements_list[1])>>
    ELSE <<>>

\* the packages the one-by-one fallback installs: none when the installer
\* succeeded, else the non-blank lines of the list, stripped
FallbackPackages(pip_result, requirements_list) ==
    IF pip_result.status # "success"
    THEN SelectSeq([k \in 1..Len(requirements_list) |-> Strip(requirements_list[k])],
                   LAMBDA package : package # "")
    ELSE <<>>

\* a workflow that would run the script before anything is installed
generate_full_project_workflow_script_first(user_request, replies, now, writes, outcomes) ==
    [result |-> [status |-> "success",
                 requirements_path |-> PathJoin(data_dir, "requirements_0.txt"),
                 model_path |-> PathJoin(data_dir, "model_0.py"),
                 pip_stdout |-> "", pip_stderr |-> "", run_stdout |-> "", run_stderr |-> "",
                 message |-> ""],
     raised |-> FALSE,
     trace |-> <<Call("write_file", [path |-> PathJoin(data_dir, "requirements_0.txt"),
                                     content |-> "numpy"]),
                 Call("write_file", [path |-> PathJoin(data_dir, "model_0.py"),
                                     content |-> "print(1)"]),
                 Call("execute_command", "python " \o PathJoin(data_dir, "model_0.py")),
                 Call("execute_command",
                      "pip install -r " \o PathJoin(data_dir, "requirements_0.txt"))>>]

\* CodeAgent.generate_full_project_workflow(user_request): the model answers
\* replies[1] and replies[2], the clock reads `now`, the two file writes succeed
\* or not (writes), the k-th command run comes to outcomes[k]
generate_full_project_workflow(user_request, replies, now, writes, outcomes) ==
    LET \* an exception leaves the workflow: it has no try block around its steps
        WorkflowRaise(text, calls) ==
            [result |-> [status |-> None], raised |-> TRUE,
             trace |-> Append(calls, Call("raise", text))]
        Ran(req_path, model_path, wrote2, pips, packages, run_cmd, run_result) ==
            [result |->
                [status |-> "success",
                 requirements_path |-> req_path,
                 model_path |-> model_path,
                 pip_stdout |-> Get(pips.pip_result, "stdout"),
                 pip_stderr |-> Get(pips.pip_result, "stderr"),
                 run_stdout |-> Get(run_result, "stdout"),
                 run_stderr |-> Get(run_result, "stderr"),
                 message |-> "requirements.txt ve model.py olusturuldu, pip install ve python "
                             \o "calistirildi.\n\nrequirements.txt: " \o req_path
                             \o "\nmodel.py: " \o model_path],
             raised |-> FALSE,
             trace |-> wrote2 \o pips.calls
                       \o [k \in 1..Len(packages) |->
                              Call("execute_command", "pip install " \o packages[k])]
                       \o <<Call("execute_command", run_cmd)>>]
        Run(req_path, model_path, wrote2, pips, packages, run_cmd) ==
            Ran(req_path, model_path, wrote2, pips, packages, run_cmd,
                execute_command(run_cmd, 180,
                    outcomes[Len(SelectSeq(pips.calls, LAMBDA c : c.fn = "execute_command"))
                             + Len(packages) + 1]))
        Fallback(req_path, model_path, wrote2, pips, requirements_list) ==
            Run(req_path, model_path, wrote2, pips,
                FallbackPackages(pips.pip_result, requirements_list),
                "python " \o model_path)
        Scripted(req_path, model_path, requirements, asked2, model_code) ==
            IF ~writes[2] THEN WorkflowRaise("[Errno 28] No space left on device", asked2)
            ELSE Fallback(req_path, model_path,
                          asked2 \o <<Call("write_file",
                                           [path |-> model_path, content |-> model_code])>>,
                          PipAttempts("pip install -r " \o req_path, outcomes, 0),
                          SplitOn(requirements, "\n"))
        Asked2(req_path, model_path, requirements, asked2) ==
            IF ~replies[2].ok THEN WorkflowRaise(replies[2].content, asked2)
            ELSE Scripted(req_path, model_path, requirements, asked2,
                          FirstBlockOrText(<<Lit(Fence \o "python"), Ws0,
                                             Rep(AnyChar, 0, 0, FALSE, TRUE),
                                             Lit("\n" \o Fence)>>,
                                           PlainFencePattern,
                                           replies[2].content))
        Listed(req_path, model_path, asked1, requirements) ==
            IF ~writes[1] THEN WorkflowRaise("[Errno 28] No space left on device", asked1)
            ELSE Asked2(req_path, model_path, requirements,
                        asked1
                        \o <<Call("write_file", [path |-> req_path, content |-> requirements]),
                             Call("llm.invoke", <<UserMessage(code_prompt(user_request))>>)>>)
        Asked1(req_path, model_path, asked1) ==
            IF ~replies[1].ok THEN WorkflowRaise(replies[1].content, asked1)
            ELSE Listed(req_path, model_path, asked1,
                        SanitizedRequirements(replies[1].content))
        Stamped(timestamp) ==
            Asked1(PathJoin(data_dir, "requirements_" \o timestamp \o ".txt"),
                   PathJoin(data_dir, "model_" \o timestamp \o ".py"),
                   <<Call("llm.invoke", <<UserMessage(req_prompt(user_request))>>)>>)
    IN  Stamped(Timestamp(now))

-----------------------------------------------------------------------------
(* main.py: the CLI subcommand `run`                                       *)

\* handle_terminal_command(args) for args.command = command and args.timeout =
\* timeout: the exit code returned, the lines printed and the calls made
handle_terminal_command(command, timeout, outcome) ==
    IF Falsy(command) THEN
        [result |-> [exit_code |-> 1, printed |-> <<"Error: No command provided">>],
         raised |-> FALSE, trace |-> <<>>]
    ELSE IF ~is_safe_command(command) THEN
        LET alts == suggest_safe_alternatives(command)
        IN  [result |->
                [exit_code |-> 1,
                 printed |-> <<"Error: The command '" \o command
                               \o "' may be potentially dangerous and has been blocked for safety reasons.">>
                             \o (IF alts # <<>>
                                 THEN <<"\nSuggestions:">>
                                      \o [k \in 1..Len(alts) |-> "- " \o alts[k]]
                                 ELSE <<>>)],
             raised |-> FALSE,
             trace |-> <<Call("is_safe_command", command),
                         Call("suggest_safe_alternatives", command)>>]
    ELSE
        LET res == execute_command(command, timeout, outcome)
            calls == <<Call("is_safe_command", command), Call("execute_command", command)>>
        IN  IF res.status = "success" THEN
                [result |-> [exit_code |-> 0,
                             printed |-> <<"Command executed successfully:\n", res.stdout>>],
                 raised |-> FALSE, trace |-> calls]
            ELSE
                [result |-> [exit_code |-> 1,
                             printed |-> <<"Command execution failed with exit code "
                                           \o ToString(res.exit_code) \o ":\n",
                                           res.stderr>>],
                 raised |-> FALSE, trace |-> calls]

-----------------------------------------------------------------------------
(* main.py: main() for the command line `run <command> [--timeout n]`       *)

\* parse_arguments stores the subcommand name and the positional argument of
\* `run` under the same attribute, args.command, and the positional argument is
\* stored last: main therefore dispatches on the command text, not on "run".
\*  - an empty command is falsy: main goes on to setup_environment and, when
\*    that finds the packages and the API key (setup_ok), to the agent modes,
\*    none of which is selected;
\*  - the name of a file operation reaches that operation, which reads an
\*    attribute (args.path, args.source) the `run` parser never set;
\*  - the text "run" reaches handle_terminal_command, with "run" as the command;
\*  - any other text falls through handle_file_operations, which returns 1.
main_run(command, timeout, outcome, setup_ok) ==
    IF Falsy(command) THEN
        [result |-> [exit_code |-> 1,
                     printed |->
                        IF setup_ok
                        THEN <<"Please specify --interactive, --request, "
                               \o "--generate-project, or a file operation command. "
                               \o "Use --help for more information.">>
                        ELSE <<>>],
         raised |-> FALSE, trace |-> <<>>]
    ELSE IF command \in {"mkdir", "rmdir", "ls", "mv", "cp"} THEN
        LET attribute == IF command \in {"mv", "cp"} THEN "source" ELSE "path"
            text == "'Namespace' object has no attribute '" \o attribute \o "'"
        IN  [result |-> [exit_code |-> 1, printed |-> <<>>],
             raised |-> TRUE, trace |-> <<Call("raise", text)>>]
    ELSE IF command = "run" THEN handle_terminal_command(command, timeout, outcome)
    ELSE [result |-> [exit_code |-> 1, printed |-> <<>>], raised |-> FALSE, trace |-> <<>>]

-----------------------------------------------------------------------------
(* The agent and the command line: one operation at a time                 *)

\* the most words a request is put together from
MaxReqWords == 2

\* the words: the command prefixes in two letter cases, a harmless and a
\* dangerous command, an install keyword and the keywords of rules 3 to 9
ReqWords ==
    { "!cmd", "!RUN", "ls", "rm", "install", "generate code", "explain code",
      "review code", "refactor", "fix bug", "complete", "analyze" }

RECURSIVE WordStrings(_)
\* the texts of 1..n words, joined by single spaces
WordStrings(n) ==
    IF n = 0 THEN {}
    ELSE LET shorter == WordStrings(n - 1)
         IN  ReqWords \cup shorter \cup {s \o " " \o w : s \in shorter, w \in ReqWords}

Requests ==
    LET \* what follows the words: nothing, a fenced block, a fence that is never
        \* closed, a fenced block followed by text
        CodeParts ==
            { "",
              "\n" \o Fence \o "python\nimport os\n" \o Fence,
              "\n" \o Fence \o "x = 1",
              "\n" \o Fence \o "\ny()\n" \o Fence \o " faster" }
        
        \* requests of the README and of the tests, and requests without a space
        ExampleRequests ==
            { "!run ls -la", "!terminal", "!TERMINAL ls", "!Cmd echo hi", "!cmd echo \"hi",
              "!cmd echo \"sudoku\"", "!cmd   ",
              "create code in javascript", "generate code for a calculator in python",
              "kur numpy", "hello", "finish this " \o Fence \o "a" \o Fence,
              "fix the error " \o Fence \o "a" \o Fence \o " it crashes" }
        
        \* generate requests that name no language, one, or several of them
        LanguageRequests ==
            { "generate code for a calculator in Python",
              "generate code in typescript or python",
              "create code for java",
              "generate code for a good rust tool",
              "Generate Code in C#" }
        \* a request with no keyword, capitals and surrounding spaces
        PlainRequests == { "  Write Me a Sorter " }
    IN  {w \o c : w \in WordStrings(MaxReqWords), c \in CodeParts}
        \cup ExampleRequests \cup LanguageRequests \cup PlainRequests

\* the answers of the chat model: prose, one tagged block, two blocks of which
\* the first has no tag, and the call raising
Replies ==
    { [ok |-> TRUE, content |-> "Nothing to show."],
      [ok |-> TRUE, content |-> Fence \o "python\nprint(1)\n" \o Fence],
      [ok |-> TRUE, content |-> "Use:\n" \o Fence \o "\nnumpy\n" \o Fence \o "\nthen\n"
                                \o Fence \o "js\nlet a;\n" \o Fence],
      [ok |-> FALSE, content |-> LLMFailureText] }

\* the readings of the clock, in seconds after the first one
MaxClock == 1
Clock == 0..MaxClock

DefaultReply == [ok |-> TRUE, content |-> "Nothing to show."]
\* a command that exits with 0 and one that exits with 2
Succeeded == [kind |-> "completed", returncode |-> 0, stdout |-> "out", stderr |-> ""]
Failed == [kind |-> "completed", returncode |-> 2, stdout |-> "", stderr |-> "err"]

\* what the collaborators answer during one process_request: the branch of the
\* request decides which of them it consults; the others are left at a default,
\* they cannot change what the branch does
Environments(user_request) ==
    LET Consulted(which, saving) ==
            [reply : IF which \in {"terminal-command", "analyze-code"}
                     THEN {DefaultReply} ELSE Replies,
             outcome : IF which = "terminal-command" THEN ExecOutcomes
                       ELSE IF which = "install-libraries" THEN {Succeeded, Failed}
                       ELSE {Succeeded},
             writeOk : IF saving THEN BOOLEAN ELSE {TRUE},
             now : IF saving THEN Clock ELSE {0}]
        Branch(which) ==
            Consulted(which, which \in {"install-libraries", "generate-code", "freeform"})
    IN  Branch(ClassifyIntent(user_request))

NoEnv == [reply |-> DefaultReply, outcome |-> Succeeded, writeOk |-> TRUE, now |-> 0]

InitMain ==
    /\ mode = "idle"
    /\ opName = "none"
    /\ input = ""
    /\ answers = NoEnv
    /\ intent = "none"
    /\ result = [status |-> "none"]
    /\ raised = FALSE
    /\ trace = <<>>
    /\ clock = 0
    /\ saved_files = <<>>

Init ==
    /\ cmd = ""
    /\ verdict = "unchecked"
    /\ InitMain

\* one call agent.process_request(user_request)
ProcessRequest ==
    /\ mode = "idle"
    /\ \E user_request \in Requests :
       \E e \in Environments(user_request) :
          LET Returned(r) ==
                  /\ mode' = "done"
                  /\ opName' = "process_request"
                  /\ input' = user_request
                  /\ answers' = e
                  /\ intent' = ClassifyIntent(user_request)
                  /\ result' = r.result
                  /\ raised' = r.raised
                  /\ trace' = r.trace
          IN  Returned(process_request(user_request, e, e.now))
    /\ UNCHANGED <<cmd, verdict, clock, saved_files>>

\* the commands given to `run` on the command line
CliCommands ==
    { "", "run", "ls", "mkdir", "mv", "ls -la", "rm -rf build", "echo \"sudoku\"",
      "echo \"hi", "python model.py" }

\* one run of the program as `main.py run <command>`
MainRun ==
    /\ mode = "idle"
    /\ \E command \in CliCommands, outcome \in ExecOutcomes,
          setup_ok \in BOOLEAN :
          LET Returned(r) ==
                  /\ mode' = "done"
                  /\ opName' = "main_run"
                  /\ input' = command
                  /\ answers' = [outcome |-> outcome, setup_ok |-> setup_ok]
                  /\ intent' = "none"
                  /\ result' = r.result
                  /\ raised' = r.raised
                  /\ trace' = r.trace
          IN  Returned(main_run(command, DefaultTimeout, outcome, setup_ok))
    /\ UNCHANGED <<cmd, verdict, clock, saved_files>>

\* the most commands one workflow runs: three installer attempts, one install
\* per package of the lists below, the script
MaxCommandRuns == 6

\* the outcomes of the commands a workflow runs, the k-th run taking the k-th
OutcomeRuns ==
    LET \* which runs fail: the first k of them, one of them alone, or every
        \* attempt of the installer and one run after them
        FailureSets ==
            {1..k : k \in 0..MaxCommandRuns}
            \cup {{k} : k \in 1..MaxCommandRuns}
            \cup {(1..max_retries) \cup {k} : k \in (max_retries + 1)..MaxCommandRuns}
        
    IN
    {[k \in 1..MaxCommandRuns |-> IF k \in F THEN Failed ELSE Succeeded] : F \in FailureSets}

\* the answers of the chat model to generate_project
ProjectReplies ==
    { [ok |-> TRUE, content |-> Fence \o "json\n" \o JsonWithRequirements \o "\n" \o Fence],
      [ok |-> TRUE, content |-> "Here:\n" \o Fence \o "json " \o JsonInstallOnly \o Fence],
      [ok |-> TRUE, content |-> Fence \o "json\n\n" \o JsonRunOnly \o "\n\n" \o Fence],
      [ok |-> TRUE, content |-> Fence \o "json\n" \o "{dosyalar" \o "\n" \o Fence],
      [ok |-> TRUE, content |-> "I cannot help."],
      [ok |-> FALSE, content |-> LLMFailureText] }

\* one call agent.generate_project(project_description)
GenerateProject ==
    /\ mode = "idle"
    /\ \E project_description \in {"a calculator", "Plot  CSV-data!!"}, reply \in ProjectReplies,
          now \in Clock, writeOk \in BOOLEAN, outcomes \in OutcomeRuns :
          LET Returned(r) ==
                  /\ mode' = "done"
                  /\ opName' = "generate_project"
                  /\ input' = project_description
                  /\ answers' = [reply |-> reply, outcomes |-> outcomes, writeOk |-> writeOk,
                                 now |-> now]
                  /\ intent' = "none"
                  /\ result' = r.result
                  /\ raised' = r.raised
                  /\ trace' = r.trace
          IN  Returned(generate_project(project_description, reply, now, writeOk, outcomes))
    /\ UNCHANGED <<cmd, verdict, clock, saved_files>>

\* the answers of the chat model to the workflow's two questions
RequirementReplies ==
    { [ok |-> TRUE, content |-> Fence \o "\nnumpy\nsklearn\npip install pandas\nnumpy==1.0\n"
                                \o Fence],
      [ok |-> TRUE, content |-> "pandas>=2.0\n\n  scikit-learn \nsklearn"],
      [ok |-> TRUE, content |-> ""],
      [ok |-> FALSE, content |-> LLMFailureText] }
ScriptReplies ==
    { [ok |-> TRUE, content |-> Fence \o "python\nprint(1)\n" \o Fence],
      [ok |-> TRUE, content |-> "print(2)"],
      [ok |-> FALSE, content |-> LLMFailureText] }

\* one call agent.generate_full_project_workflow(user_request)
GenerateFullProjectWorkflow ==
    /\ mode = "idle"
    /\ \E user_request \in {"train a model"},
          r1 \in RequirementReplies, r2 \in ScriptReplies, now \in Clock,
          w1 \in BOOLEAN, w2 \in BOOLEAN, outcomes \in OutcomeRuns :
          LET Returned(r) ==
                  /\ mode' = "done"
                  /\ opName' = "generate_full_project_workflow"
                  /\ input' = user_request
                  /\ answers' = [replies |-> <<r1, r2>>, outcomes |-> outcomes,
                                 writes |-> <<w1, w2>>, now |-> now]
                  /\ intent' = "none"
                  /\ result' = r.result
                  /\ raised' = r.raised
                  /\ trace' = r.trace
          IN  Returned(generate_full_project_workflow(user_request, <<r1, r2>>, now,
                                                      <<w1, w2>>, outcomes))
    /\ UNCHANGED <<cmd, verdict, clock, saved_files>>

\* one run of the program as `main.py --generate-project <description>`:
\* setup_environment finds the packages and the API key or not (setup_ok), main
\* calls the workflow, prints what it returns and returns 0; an exception that
\* leaves the workflow is caught by main's except clause, which returns 1
MainGenerateProject ==
    /\ mode = "idle"
    /\ \E description \in {"train a model"},
          r1 \in RequirementReplies, r2 \in ScriptReplies, outcomes \in OutcomeRuns,
          setup_ok \in BOOLEAN :
          LET Exit(code, printed, calls) ==
                  [result |-> [exit_code |-> code, printed |-> printed], trace |-> calls]
              Displayed(res) ==
                  <<res.message, "\n--- pip install ciktisi ---\n", res.pip_stdout>>
                  \o (IF res.pip_stderr # "" THEN <<"\n[Hata]: " \o res.pip_stderr>>
                      ELSE <<>>)
                  \o <<"\n--- python model.py ciktisi ---\n", res.run_stdout>>
                  \o (IF res.run_stderr # "" THEN <<"\n[Hata]: " \o res.run_stderr>>
                      ELSE <<>>)
              Ran(w) ==
                  IF w.raised
                  THEN Exit(1, <<"An error occurred: " \o w.trace[Len(w.trace)].arg>>,
                            w.trace)
                  ELSE Exit(0, Displayed(w.result), w.trace)
              Returned(r) ==
                  /\ mode' = "done"
                  /\ opName' = "main_generate_project"
                  /\ input' = description
                  /\ answers' = [replies |-> <<r1, r2>>, outcomes |-> outcomes,
                                 writes |-> <<TRUE, TRUE>>, now |-> 0,
                                 setup_ok |-> setup_ok]
                  /\ intent' = "none"
                  /\ result' = r.result
                  /\ raised' = FALSE
                  /\ trace' = r.trace
          IN  Returned(IF ~setup_ok THEN Exit(1, <<>>, <<>>)
                       ELSE Ran(generate_full_project_workflow(description, <<r1, r2>>, 0,
                                                               <<TRUE, TRUE>>, outcomes)))
    /\ UNCHANGED <<cmd, verdict, clock, saved_files>>

\* the caller has the outcome; the next operation can start
Return ==
    /\ mode = "done"
    /\ mode' = "idle"
    /\ opName' = "none"
    /\ input' = ""
    /\ answers' = NoEnv
    /\ intent' = "none"
    /\ result' = [status |-> "none"]
    /\ raised' = FALSE
    /\ trace' = <<>>
    /\ UNCHANGED <<cmd, verdict, clock, saved_files>>

Next ==
    \/ ProcessRequest
    \/ MainRun
    \/ GenerateProject
    \/ GenerateFullProjectWorkflow
    \/ MainGenerateProject
    \/ Return

Spec == Init /\ [][Next]_vars

-----------------------------------------------------------------------------
(* Claims about the dispatcher and the command line (checked under Spec)   *)

\* operation op has run and its outcome is in result, raised and trace
Done(op) == mode = "done" /\ opName = op

\* the positions of the calls of fn in the trace
Positions(fn) == {k \in 1..Len(trace) : trace[k].fn = fn}

\* C1: for every command the filter finds unsafe, the dispatcher's terminal
\* branch and the `run` subcommand of the command line both answer with an error
\* that carries the suggestions, and neither runs the command.
C1_UnsafeCommandRefusedWithSuggestions ==
    /\ ( /\ Done("process_request")
         /\ intent = "terminal-command"
         /\ Strip(CommandOfRequest(input)) # ""
         /\ ~is_safe_command(CommandOfRequest(input)) )
       => LET suggestions == suggest_safe_alternatives(CommandOfRequest(input))
          IN  /\ result.status = "error"
              /\ "additional_info" \in DOMAIN result
              /\ \A k \in 1..Len(suggestions) :
                    Contains(result.additional_info, "- " \o suggestions[k])
              /\ Positions("execute_command") = {}
    /\ ( /\ Done("main_run")
         /\ input # ""
         /\ ~is_safe_command(input) )
       => LET suggestions == suggest_safe_alternatives(input)
          IN  /\ ~raised
              /\ result.exit_code = 1
              /\ \A k \in 1..Len(suggestions) :
                    \E j \in 1..Len(result.printed) :
                        result.printed[j] = "- " \o suggestions[k]
              /\ Positions("execute_command") = {}

\* C1, the run that breaks it: `main.py run "rm -rf build"` ends with exit code 1
\* and has printed nothing; the filter and the suggestions were never called.
C1_Witness ==
    /\ Done("main_run")
    /\ input = "rm -rf build"
    /\ result = [exit_code |-> 1, printed |-> <<>>]
    /\ trace = <<>>

\* C2: every call of execute_command is preceded, in the same operation, by a
\* call of is_safe_command on the same command.
C2_ExecutePrecededBySafetyCheck ==
    \A k \in Positions("execute_command") :
        \E j \in Positions("is_safe_command") : j < k /\ trace[j].arg = trace[k].arg

\* C2, the run that breaks it: the install-libraries branch ran its installer
\* command and the filter was not called at all.
C2_Witness ==
    /\ Done("process_request")
    /\ intent = "install-libraries"
    /\ Positions("execute_command") # {}
    /\ Positions("is_safe_command") = {}

\* C6: process_request returns a result and lets no exception out: whatever was
\* raised while the result was produced has become {status: error, error_message}.
C6_NoExceptionLeavesProcessRequest ==
    Done("process_request") =>
        /\ ~raised
        /\ "status" \in DOMAIN result
        /\ result.status \in {"success", "error"}
        /\ \A k \in Positions("raise") :
              /\ result.status = "error"
              /\ "error_message" \in DOMAIN result
              /\ result.error_message = trace[k].arg

\* C6 witness: the chat model's call raised during a review, and the caller got
\* the error result with the exception's text.
C6_Witness ==
    /\ Done("process_request")
    /\ intent = "review-code"
    /\ ~answers.reply.ok
    /\ Positions("raise") # {}
    /\ ~raised
    /\ result = [status |-> "error", error_message |-> LLMFailureText]

\* C7: for the intents generate, explain, review, refactor, fix-bug, complete
\* and freeform, when the model's reply holds a fenced code block, the first
\* block is handed to save_code_to_file, the result has status success, and the
\* response is the reply followed by the note that names the saved file.
C7_FencedReplyIsSaved ==
    ( /\ Done("process_request")
      /\ intent \in {"generate-code", "explain-code", "review-code", "refactor-code",
                     "fix-bug", "complete-code", "freeform"}
      /\ Positions("llm.invoke") # {}
      /\ answers.reply.ok
      /\ answers.writeOk
      /\ FindCodeBlocks(answers.reply.content) # <<>> )
    => LET first == Strip(FindCodeBlocks(answers.reply.content)[1].body)
       IN  /\ \E k \in Positions("save_code_to_file") : trace[k].arg.code = first
           /\ result.status = "success"
           /\ result.file_info.status = "success"
           /\ \E k \in Positions("write_file") :
                 trace[k].arg.path = result.file_info.file_path
           /\ result.response = answers.reply.content \o "\n\n[Code saved to file: "
                                 \o result.file_info.file_path \o "]"

\* C7, a run that breaks it: the reply to an explain request held a fenced block
\* and the result is the bare reply; save_code_to_file was not called.
C7_Witness ==
    /\ Done("process_request")
    /\ intent = "explain-code"
    /\ answers.reply.ok
    /\ FindCodeBlocks(answers.reply.content) # <<>>
    /\ Positions("save_code_to_file") = {}
    /\ result.status = "success"
    /\ result.response = answers.reply.content

\* C8: the intent is that of the lowest-numbered rule that matches the
\* lower-cased request, in the order terminal-command, install-libraries,
\* generate, explain, review, refactor, fix-bug, complete, analyze, freeform.
C8_LowestNumberedRuleWins ==
    LET low == Lower(input)
        has(s) == Contains(low, s)
        rules ==
            << \E k \in 1..Len(command_prefixes) : StartsWith(low, command_prefixes[k]),
               \E k \in 1..Len(install_keywords) : has(install_keywords[k]),
               has("generate code") \/ has("create code"),
               has("explain") /\ has("code"),
               has("review") /\ has("code"),
               has("refactor"),
               has("fix") /\ (has("bug") \/ has("error")),
               has("complete") \/ has("finish"),
               has("analyze"),
               TRUE >>
        names ==
            << "terminal-command", "install-libraries", "generate-code", "explain-code",
               "review-code", "refactor-code", "fix-bug", "complete-code", "analyze-code",
               "freeform" >>
        lowest == CHOOSE i \in 1..Len(rules) : rules[i] /\ \A j \in 1..(i - 1) : ~rules[j]
    IN  Done("process_request") => intent = names[lowest]

\* C8, a run that breaks it: "!RUN refactor" matches rule 1 and rule 6, and was
\* handled by rule 6.
C8_Witness ==
    /\ Done("process_request")
    /\ input = "!RUN refactor"
    /\ intent = "refactor-code"

\* C9: a request whose lower-cased text starts with a command prefix is a
\* terminal command whatever the letter case of the prefix, and the command
\* handed on is what follows the first space, "" when there is no space.
C9_PrefixInAnyCaseIsTerminal ==
    LET spaces == {i \in 1..Len(input) : CharAt(input, i) = " "}
        remainder == IF spaces = {} THEN "" ELSE From(input, Min(spaces) + 1)
    IN  ( /\ Done("process_request")
          /\ \E k \in 1..Len(command_prefixes) :
                StartsWith(Lower(input), command_prefixes[k]) )
        => /\ intent = "terminal-command"
           /\ IF Strip(remainder) = ""
              THEN result = [status |-> "error", error_message |-> "No command provided"]
              ELSE trace # <<>> /\ trace[1] = Call("is_safe_command", remainder)

\* C9, a run that breaks it: "!TERMINAL ls" was not taken for a terminal command;
\* it went to the chat model as a freeform request.
C9_Witness ==
    /\ Done("process_request")
    /\ input = "!TERMINAL ls"
    /\ intent = "freeform"
    /\ Positions("llm.invoke") # {}
    /\ Positions("is_safe_command") = {}

\* C10: for the explain, review, refactor, fix-bug, complete and analyze
\* intents, a request without a closing fence (or without any fence) is answered
\* with the instruction for that intent; the chat model is not called and
\* nothing is written.
C10_NoClosingFenceNoModelCall ==
    LET opening == Find(input, Fence, 0)
        unclosed == opening = -1 \/ Find(input, Fence, opening + 3) = -1
        purpose == [i \in {"explain-code", "review-code", "refactor-code", "fix-bug",
                           "complete-code", "analyze-code"} |->
                       CASE i = "explain-code" -> "explanation"
                         [] i = "review-code" -> "review"
                         [] i = "refactor-code" -> "refactoring"
                         [] i = "fix-bug" -> "bug fixing"
                         [] i = "complete-code" -> "completion"
                         [] OTHER -> "analysis"]
    IN  ( /\ Done("process_request")
          /\ intent \in DOMAIN purpose
          /\ unclosed )
        => /\ result.status = "success"
           /\ result.response =
                 "Please provide code within triple backticks (" \o Fence \o ") for "
                 \o purpose[intent] \o "."
           /\ trace = <<>>

\* C10 witness: an explain request whose fence is never closed got the
\* instruction, with no call made, although the model had a reply ready.
C10_Witness ==
    /\ Done("process_request")
    /\ intent = "explain-code"
    /\ Find(input, Fence, 0) # -1
    /\ Find(input, Fence, Find(input, Fence, 0) + 3) = -1
    /\ answers.reply.ok
    /\ trace = <<>>
    /\ result.response =
          "Please provide code within triple backticks (" \o Fence \o ") for explanation."

\* C11: in the generate-code intent the language handed to the generation
\* template is the first name of the list python, javascript, typescript, java,
\* c++, c#, go, rust that occurs in the lower-cased request, and python when
\* none occurs; "generate code for a calculator in python" is a generate-code
\* request with language python.
C11_GenerateLanguageIsFirstCandidate ==
    LET candidates == <<"python", "javascript", "typescript", "java", "c++", "c#", "go",
                        "rust">>
        occurs(k) == Contains(Lower(input), candidates[k])
        first == IF \A k \in 1..Len(candidates) : ~occurs(k) THEN "python"
                 ELSE candidates[CHOOSE k \in 1..Len(candidates) :
                                    occurs(k) /\ \A j \in 1..(k - 1) : ~occurs(j)]
    IN  /\ (Done("process_request") /\ intent = "generate-code")
            => /\ trace # <<>>
               /\ trace[1] = Call("llm.invoke",
                                  AgentMessages(CODE_GENERATION_PROMPT(first, input, "")))
        /\ (Done("process_request") /\ input = "generate code for a calculator in python")
            => /\ intent = "generate-code"
               /\ first = "python"

\* C11 witness: a generate request in which two candidates occur, javascript
\* and java; the template got javascript, the earlier of the two in the list.
C11_Witness ==
    /\ Done("process_request")
    /\ intent = "generate-code"
    /\ Contains(Lower(input), "javascript")
    /\ Contains(Lower(input), "java")
    /\ trace # <<>>
    /\ trace[1] = Call("llm.invoke",
                       AgentMessages(CODE_GENERATION_PROMPT("javascript", input, "")))

\* C12: a request that matches none of the rules 1 to 9 is handled as freeform,
\* and the chat model is called with exactly two messages: the system preamble
\* and a user message whose content is the request text as given.
C12_UnmatchedRequestGoesRawToModel ==
    LET low == Lower(input)
        has(s) == Contains(low, s)
        matched ==
            \/ \E k \in 1..Len(command_prefixes) : StartsWith(low, command_prefixes[k])
            \/ \E k \in 1..Len(install_keywords) : has(install_keywords[k])
            \/ has("generate code") \/ has("create code")
            \/ has("explain") /\ has("code")
            \/ has("review") /\ has("code")
            \/ has("refactor")
            \/ has("fix") /\ (has("bug") \/ has("error"))
            \/ has("complete") \/ has("finish")
            \/ has("analyze")
    IN  (Done("process_request") /\ ~matched)
        => /\ intent = "freeform"
           /\ Cardinality(Positions("llm.invoke")) = 1
           /\ trace[1].fn = "llm.invoke"
           /\ trace[1].arg = << [role |-> "system", content |-> system_message],
                                [role |-> "human", content |-> input] >>

\* C12 witness: a request with capitals and surrounding spaces and no keyword
\* reached the model as given, after the preamble.
C12_Witness ==
    /\ Done("process_request")
    /\ intent = "freeform"
    /\ input = "  Write Me a Sorter "
    /\ Len(trace[1].arg) = 2
    /\ trace[1].arg[1].content = system_message
    /\ trace[1].arg[2] = [role |-> "human", content |-> "  Write Me a Sorter "]

\* C16: in the project workflow the installer command for the whole list is
\* run at least once and at most 3 times, never again after a run of it
\* succeeded; and when a run of it succeeds the next command run is the
\* generated script, no package is installed on its own, and the installer
\* output returned is that of the successful run.
C16_BulkInstallStopsAtFirstSuccess ==
    (Done("generate_full_project_workflow") /\ ~raised)
    => LET pip_cmd == "pip install -r " \o result.requirements_path
           runs == SelectSeq(trace, LAMBDA c : c.fn = "execute_command")
           bulk == {k \in 1..Len(runs) : runs[k].arg = pip_cmd}
           n == Cardinality(bulk)
           ok(k) == answers.outcomes[k].returncode = 0
       IN  /\ n >= 1
           /\ n <= 3
           /\ bulk = 1..n
           /\ \A k \in 1..(n - 1) : ~ok(k)
           /\ ok(n) => /\ Len(runs) = n + 1
                       /\ runs[n + 1].arg = "python " \o result.model_path
                       /\ result.pip_stdout = answers.outcomes[n].stdout
                       /\ result.pip_stderr = answers.outcomes[n].stderr

\* C16 witness: the installer failed twice and succeeded the third time; the
\* workflow ran it three times, then the script, and returned the output of
\* the third run.
C16_Witness ==
    /\ Done("generate_full_project_workflow")
    /\ ~raised
    /\ answers.outcomes[1] = Failed
    /\ answers.outcomes[2] = Failed
    /\ answers.outcomes[3] = Succeeded
    /\ SelectSeq(trace, LAMBDA c : c.fn = "execute_command")
          = << Call("execute_command", "pip install -r " \o result.requirements_path),
               Call("execute_command", "pip install -r " \o result.requirements_path),
               Call("execute_command", "pip install -r " \o result.requirements_path),
               Call("execute_command", "python " \o result.model_path) >>
    /\ result.pip_stdout = "out"

\* C17: when all 3 runs of the installer fail, the workflow goes on: every
\* line of the dependency list it wrote is installed on its own, once and in
\* the order of the list, whether or not the installs before it failed; then
\* the generated script is run and its output is what the workflow returns.
C17_FailedInstallFallsBackAndRuns ==
    ( /\ Done("generate_full_project_workflow")
      /\ ~raised
      /\ \A k \in 1..3 : answers.outcomes[k].returncode # 0 )
    => LET pip_cmd == "pip install -r " \o result.requirements_path
           runs == SelectSeq(trace, LAMBDA c : c.fn = "execute_command")
           listed == SelectSeq(trace, LAMBDA c :
                        c.fn = "write_file" /\ c.arg.path = result.requirements_path)
           lines == SplitOn(listed[1].arg.content, "\n")
           packages == SelectSeq(lines, LAMBDA line : line # "")
           m == Len(packages)
       IN  /\ Len(listed) = 1
           /\ \A i, j \in 1..m : i # j => packages[i] # packages[j]
           /\ Len(runs) = 3 + m + 1
           /\ \A k \in 1..3 : runs[k].arg = pip_cmd
           /\ \A i \in 1..m : runs[3 + i].arg = "pip install " \o packages[i]
           /\ runs[3 + m + 1].arg = "python " \o result.model_path
           /\ result.status = "success"
           /\ result.run_stdout = answers.outcomes[3 + m + 1].stdout
           /\ result.run_stderr = answers.outcomes[3 + m + 1].stderr

\* C17 witness: the installer failed three times and so did the install of the
\* first of two packages; the second was installed all the same and the script
\* was run.
C17_Witness ==
    /\ Done("generate_full_project_workflow")
    /\ ~raised
    /\ \A k \in 1..4 : answers.outcomes[k] = Failed
    /\ answers.outcomes[5] = Succeeded
    /\ answers.outcomes[6] = Succeeded
    /\ SelectSeq(trace, LAMBDA c : c.fn = "execute_command")
          = << Call("execute_command", "pip install -r " \o result.requirements_path),
               Call("execute_command", "pip install -r " \o result.requirements_path),
               Call("execute_command", "pip install -r " \o result.requirements_path),
               Call("execute_command", "pip install numpy"),
               Call("execute_command", "pip install scikit-learn"),
               Call("execute_command", "python " \o result.model_path) >>
    /\ result.run_stdout = "out"

\* C18: the exit code of the CLI is 0 when the operation asked for succeeded
\* and 1 when it failed: for `run` and for an invocation without a mode, and
\* for --generate-project, whose installer and script runs can fail. The
\* operation succeeded when it ran at least one command and every command it
\* ran exited with 0.
C18_ExitCodeTellsSuccess ==
    ((Done("main_run") \/ Done("main_generate_project")) /\ ~raised)
    => LET runs == SelectSeq(trace, LAMBDA c : c.fn = "execute_command")
           outcome(k) == IF opName = "main_run" THEN answers.outcome
                         ELSE answers.outcomes[k]
           succeeded == /\ runs # <<>>
                        /\ \A k \in 1..Len(runs) :
                              outcome(k).kind = "completed" /\ outcome(k).returncode = 0
       IN  /\ result.exit_code \in {0, 1}
           /\ result.exit_code = 0 <=> succeeded

\* C18, a run that breaks it: under --generate-project the installer failed
\* three times, every package install failed and the script exited with 2;
\* the CLI printed the script's error output and returned 0.
C18_Witness ==
    /\ Done("main_generate_project")
    /\ \A k \in 1..Len(answers.outcomes) : answers.outcomes[k] = Failed
    /\ Cardinality(Positions("execute_command")) = 6
    /\ \E k \in 1..Len(result.printed) : result.printed[k] = "\n[Hata]: err"
    /\ result.exit_code = 0

\* C26: the dependency list the workflow writes is the model's list with the
\* install-command phrasing stripped, sklearn renamed to scikit-learn and
\* duplicates dropped after their first occurrence: it has no entry twice, has
\* no entry sklearn, lists the packages in the order the model first named
\* them, and has every package the model named.
C26_DependencyListKeepsEveryPackage ==
    ( /\ Done("generate_full_project_workflow")
      /\ answers.replies[1].ok
      /\ answers.writes[1] )
    => LET named == answers.replies[1].content
           Normal(p) == IF p = "sklearn" THEN "scikit-learn" ELSE p
           \* where the model first named the package that is listed as e
           FirstNamed(e) ==
               Min({Find(named, p, 0) :
                       p \in {q \in {"numpy", "pandas", "scikit-learn", "sklearn"} :
                                 Normal(q) = e /\ Contains(named, q)}})
           Listed(written) ==
               LET lines == SplitOn(written[1].arg.content, "\n")
                   entries == SelectSeq(lines, LAMBDA line : line # "")
               IN  /\ Len(written) = 1
                   /\ \A i, j \in 1..Len(entries) : i # j => entries[i] # entries[j]
                   /\ \A i \in 1..Len(entries) : entries[i] # "sklearn"
                   /\ \A i, j \in 1..Len(entries) :
                         i < j => FirstNamed(entries[i]) < FirstNamed(entries[j])
                   /\ \A p \in {"numpy", "pandas", "scikit-learn", "sklearn"} :
                         Contains(named, p)
                         => \E i \in 1..Len(entries) : entries[i] = Normal(p)
       IN  Listed(SelectSeq(trace, LAMBDA c :
                      c.fn = "write_file" /\ Contains(c.arg.path, "requirements_")))

\* C26 witness: the model named numpy, sklearn and, as `pip install pandas`,
\* pandas; the list written is numpy and scikit-learn.
C26_Witness ==
    /\ Done("generate_full_project_workflow")
    /\ answers.replies[1].ok
    /\ Contains(answers.replies[1].content, "pip install pandas")
    /\ \E k \in 1..Len(trace) :
          /\ trace[k].fn = "write_file"
          /\ Contains(trace[k].arg.path, "requirements_")
          /\ trace[k].arg.content = "numpy\nscikit-learn"

\* C27: the workflow does its steps in the order dependency file written,
\* script file written, installer runs (then the packages one by one), script
\* run; the script is run once, after every install, and no step deletes or
\* writes again a file an earlier step wrote, whatever step fails later.
C27_WorkflowStepsInOrder ==
    Done("generate_full_project_workflow") =>
        LET Ordered(listed, scripted, installs, scripts) ==
                /\ Positions("write_file") = listed \cup scripted
                /\ Positions("execute_command") = installs \cup scripts
                /\ \A k \in 1..Len(trace) :
                      trace[k].fn \in {"llm.invoke", "write_file", "execute_command",
                                       "sleep", "raise"}
                /\ Cardinality(listed) <= 1
                /\ Cardinality(scripted) <= 1
                /\ listed \cap scripted = {}
                /\ \A i \in listed, j \in scripted : trace[i].arg.path # trace[j].arg.path
                /\ scripted # {} => listed # {}
                /\ \A i \in listed, j \in scripted : i < j
                /\ installs # {} => scripted # {}
                /\ \A i \in scripted, j \in installs : i < j
                /\ \A i \in installs, j \in scripts : i < j
                /\ raised => installs = {} /\ scripts = {}
                /\ ~raised => /\ Cardinality(listed) = 1
                              /\ Cardinality(scripted) = 1
                              /\ installs # {}
                              /\ scripts = {Len(trace)}
                              /\ \A i \in listed : trace[i].arg.path = result.requirements_path
                              /\ \A i \in scripted : trace[i].arg.path = result.model_path
                              /\ trace[Len(trace)].arg = "python " \o result.model_path
        IN  Ordered({k \in Positions("write_file") :
                        Contains(trace[k].arg.path, "requirements_")},
                    {k \in Positions("write_file") : Contains(trace[k].arg.path, "model_")},
                    {k \in Positions("execute_command") :
                        StartsWith(trace[k].arg, "pip install")},
                    {k \in Positions("execute_command") : StartsWith(trace[k].arg, "python ")})

\* C27 witness: the installer failed three times, two packages were installed
\* one by one, the second of them failing, and the script was run last; both
\* files were written before the first install.
C27_Witness ==
    /\ Done("generate_full_project_workflow")
    /\ ~raised
    /\ \A k \in 1..3 : answers.outcomes[k] = Failed
    /\ answers.outcomes[5] = Failed
    /\ Cardinality(Positions("execute_command")) = 6
    /\ Cardinality(Positions("write_file")) = 2
    /\ \A w \in Positions("write_file"), r \in Positions("execute_command") : w < r
    /\ trace[Len(trace)] = Call("execute_command", "python " \o result.model_path)

\* C28: one dispatch calls the chat model exactly once for a generate or a
\* freeform request and for an explain, review, refactor, fix-bug or complete
\* request that carries fenced code, and never for an analyze-code or a
\* terminal-command request.
C28_ModelCalledOncePerDispatch ==
    Done("process_request") =>
        LET opening == Find(input, Fence, 0)
            fenced == opening # -1 /\ Find(input, Fence, opening + 3) # -1
            calls == Cardinality(Positions("llm.invoke"))
        IN  /\ intent \in {"generate-code", "freeform"} => calls = 1
            /\ ( /\ intent \in {"explain-code", "review-code", "refactor-code", "fix-bug",
                                "complete-code"}
                 /\ fenced ) => calls = 1
            /\ intent \in {"analyze-code", "terminal-command"} => calls = 0

\* C28 witness: a refactor request with fenced code, answered with a fenced
\* block, made one call of the model.
C28_Witness ==
    /\ Done("process_request")
    /\ intent = "refactor-code"
    /\ Find(input, Fence, 0) # -1
    /\ answers.reply.ok
    /\ FindCodeBlocks(answers.reply.content) # <<>>
    /\ Cardinality(Positions("llm.invoke")) = 1

\* C29: when the chat model answers a generate, explain, review, refactor,
\* fix-bug or complete request with a text that holds no fenced code block,
\* the dispatch writes no file and returns status success, the reply text
\* unchanged as the response, and no file information.
C29_ReplyWithoutBlockReturnedUnchanged ==
    ( /\ Done("process_request")
      /\ intent \in {"generate-code", "explain-code", "review-code", "refactor-code",
                     "fix-bug", "complete-code"}
      /\ Positions("llm.invoke") # {}
      /\ answers.reply.ok
      /\ FindCodeBlocks(answers.reply.content) = <<>> )
    => /\ Positions("save_code_to_file") = {}
       /\ Positions("write_file") = {}
       /\ ~raised
       /\ result = [status |-> "success", response |-> answers.reply.content,
                    file_info |-> NoFileInfo]

\* C29 witness: a fix-bug request with fenced code was answered in prose and
\* the prose came back as the response.
C29_Witness ==
    /\ Done("process_request")
    /\ intent = "fix-bug"
    /\ Positions("llm.invoke") # {}
    /\ answers.reply.ok
    /\ FindCodeBlocks(answers.reply.content) = <<>>
    /\ result.status = "success"
    /\ result.response = answers.reply.content
    /\ result.file_info = NoFileInfo

\* C30: in interactive mode the loop is left only after the line exit, quit
\* or q in any letter case was read or after a keyboard interrupt; a blank line
\* is followed by the next call of input() without any dispatch; after an
\* error result or an exception caught while handling a line the session is
\* back at the prompt or has called input() again.
C30_LoopEndsOnlyOnExitOrInterrupt ==
    opName = "run_interactive_mode" =>
        LET n == Len(trace)
            Is(k, fn) == k \in 1..n /\ trace[k].fn = fn
            Raised(k, text) == Is(k, "raise") /\ trace[k].arg = text
            ExitRead(k) == Is(k, "input") /\ Lower(trace[k].arg) \in {"exit", "quit", "q"}
            \* input() is called at position k
            Prompted(k) ==
                \/ Is(k, "input")
                \/ Raised(k, "EOF when reading a line")
                \/ Raised(k, "KeyboardInterrupt") /\ ~Is(k - 1, "process_request")
            \* the handling of a line came to an error at position k
            CameToError(k) ==
                \/ Is(k, "print") /\ StartsWith(trace[k].arg, "Error: ")
                \/ Is(k, "print") /\ StartsWith(trace[k].arg, "An error occurred: ")
        IN  /\ mode = "done" =>
                /\ n >= 2
                /\ Is(n, "print")
                /\ ExitRead(n - 1) \/ Raised(n - 1, "KeyboardInterrupt")
            /\ \A k \in 1..n :
                  Is(k, "input") /\ Strip(trace[k].arg) = "" =>
                      k = n \/ Prompted(k + 1)
            /\ \A k \in 1..n : Is(k, "process_request") => Strip(trace[k].arg) # ""
            /\ \A k \in 1..n :
                  CameToError(k) => mode = "idle" \/ \E j \in (k + 1)..n : Prompted(j)

\* C30 witness: a session read a blank line, then a line whose handling came
\* to an error, then a line that ended it.
C30_Witness ==
    /\ opName = "run_interactive_mode"
    /\ mode = "done"
    /\ \E b, f, x \in 1..Len(trace) :
          /\ b < f /\ f < x
          /\ trace[b].fn = "input" /\ Strip(trace[b].arg) = ""
          /\ trace[b + 1].fn = "input"
          /\ trace[f].fn = "print" /\ StartsWith(trace[f].arg, "Error: ")
          /\ trace[x].fn = "input" /\ Lower(trace[x].arg) = "quit"

-----------------------------------------------------------------------------
(* The safety filter on its own: a command is drawn, then checked.         *)

\* the most pieces a command under test is put together from
MaxCmdPieces == 2

\* the pieces: every entry of the filter's list, some of them in other letter
\* cases, harmless words and phrases, and the characters shlex treats specially
CmdPieces ==
    { "rm", "rmdir", "del", "format", "shutdown", "reboot",
      "sudo", "su", "chown", "chmod", "mkfs", "dd",
      "wget", "curl", ">", ">>", "|",
      "RM", "Sudo", "cUrL",
      "ls", "ls -la", "python ", "model.py", "echo \"sudoku\"", "x",
      " ", "\"", "'", "\\" }

RECURSIVE PieceStrings(_)
\* the strings made of at most n pieces
PieceStrings(n) ==
    IF n = 0 THEN {""}
    ELSE LET shorter == PieceStrings(n - 1)
         IN  shorter \cup {s \o p : s \in shorter, p \in CmdPieces}

InitSafe ==
    /\ cmd \in PieceStrings(MaxCmdPieces)
    /\ verdict = "unchecked"
    /\ InitMain

\* one call is_safe_command(cmd)
CheckSafe ==
    /\ verdict = "unchecked"
    /\ verdict' = IF is_safe_command(cmd) THEN "safe" ELSE "unsafe"
    /\ UNCHANGED <<cmd, mode, opName, input, answers, intent, result, raised, trace,
                   clock, saved_files>>

\* one call suggest_safe_alternatives(cmd)
SuggestAlternatives ==
    /\ mode = "idle"
    /\ mode' = "done"
    /\ opName' = "suggest_safe_alternatives"
    /\ result' = [suggestions |-> suggest_safe_alternatives(cmd)]
    /\ trace' = <<Call("suggest_safe_alternatives", cmd)>>
    /\ UNCHANGED <<cmd, verdict, input, answers, intent, raised, clock, saved_files>>

SpecSafe == InitSafe /\ [][CheckSafe \/ SuggestAlternatives]_vars

-----------------------------------------------------------------------------
(* Claims about the safety filter (checked under SpecSafe)                 *)

\* C3: a command that contains one of the dangerous substrings (rm, rmdir, del,
\* format, dd, mkfs, sudo, su, chown, chmod, shutdown, reboot, wget, curl, >, >>,
\* |) anywhere, in any letter casing and regardless of word boundaries, is
\* classified unsafe.
C3_DangerousSubstringUnsafe ==
    LET danger == { "rm", "rmdir", "del", "format", "dd", "mkfs", "sudo", "su", "chown",
                    "chmod", "shutdown", "reboot", "wget", "curl", ">", ">>", "|" }
    IN  (verdict # "unchecked" /\ \E d \in danger : Contains(Lower(cmd), d))
        => verdict = "unsafe"

\* C3 witness: `echo "sudoku"`, where "sudo" is only part of a word, was checked
\* and found unsafe.
C3_Witness == cmd = "echo \"sudoku\"" /\ verdict = "unsafe"

\* C4 as stated: a command made only of a verb and arguments, none of them one
\* of the dangerous command names and none holding a redirection or a pipe, is
\* classified safe.
C4_Original_NonDangerousWordsSafe ==
    LET names == { "rm", "rmdir", "del", "format", "dd", "mkfs", "sudo", "su", "chown",
                   "chmod", "shutdown", "reboot", "wget", "curl" }
        split == ShlexSplit(cmd)
        words == {Lower(split.tokens[i]) : i \in 1..Len(split.tokens)}
    IN  ( /\ verdict # "unchecked"
          /\ split.ok
          /\ words # {}
          /\ words \cap names = {}
          /\ ~Contains(cmd, ">")
          /\ ~Contains(cmd, "|") ) => verdict = "safe"

\* C4 amended: a command that tokenizes and contains none of the dangerous
\* substrings anywhere, in any letter casing, is classified safe.
C4_NoDangerSubstringSafe ==
    LET danger == { "rm", "rmdir", "del", "format", "dd", "mkfs", "sudo", "su", "chown",
                    "chmod", "shutdown", "reboot", "wget", "curl", ">", ">>", "|" }
    IN  ( /\ verdict # "unchecked"
          /\ ShlexSplit(cmd).ok
          /\ ~\E d \in danger : Contains(Lower(cmd), d) ) => verdict = "safe"

\* C4 witness: `ls -la` was checked and found safe.
C4_Witness == cmd = "ls -la" /\ verdict = "safe"

\* C5: a command whose shell-word tokenization fails is classified unsafe,
\* whatever else it contains.
C5_TokenizeFailureUnsafe ==
    (verdict # "unchecked" /\ ~ShlexSplit(cmd).ok) => verdict = "unsafe"

\* C5 witness: `ls"`, which has an unclosed quote and none of the dangerous
\* substrings, was checked and found unsafe.
C5_Witness ==
    /\ cmd = "ls\""
    /\ ~ShlexSplit(cmd).ok
    /\ verdict = "unsafe"

\* C25: suggest_safe_alternatives returns, for each dangerous substring of the
\* filter's list that occurs in the command, the canned suggestions for it, and
\* the one generic suggestion if and only if no dangerous substring occurs; the
\* list is never empty.
C25_SuggestionForEachDangerousSubstring ==
    Done("suggest_safe_alternatives") =>
        LET generic == <<"Consider reviewing the command manually before execution">>
            Suggested(found) ==
                /\ result.suggestions # <<>>
                /\ result.suggestions = generic <=> found = {}
                /\ \A k \in found :
                      \E a \in 1..Len(alternatives) :
                          /\ alternatives[a].cmd = dangerous_commands[k]
                          /\ \A i \in 1..Len(alternatives[a].alts) :
                                \E j \in 1..Len(result.suggestions) :
                                    result.suggestions[j] = alternatives[a].alts[i]
        IN  Suggested({k \in 1..Len(dangerous_commands) :
                          Contains(Lower(cmd), dangerous_commands[k])})

\* C25 witness: "wget" is on the filter's list and is found unsafe, yet the
\* suggestions for it are the generic one alone.
C25_Witness ==
    /\ Done("suggest_safe_alternatives")
    /\ cmd = "wget"
    /\ ~is_safe_command(cmd)
    /\ result.suggestions = <<"Consider reviewing the command manually before execution">>

-----------------------------------------------------------------------------
(* Saves one after the other: save_code_to_file called directly and by the *)
(* dispatcher, each reading the system clock, which has one-second steps   *)

\* the most saves in a row
MaxSaves == 2

\* one call save_code_to_file(code, language, file_path, description) at the
\* second the clock shows
SaveCode ==
    /\ Len(saved_files) < MaxSaves
    /\ \E code \in {"def f():\n    return 1", "x = 1"},
          language \in {None, "javascript", "cobol"},
          file_path \in {None, "/app/data/out", "/app/data/out.py"},
          description \in {None, "Sort a list!"},
          writeOk \in BOOLEAN :
          LET called == [code |-> code, language |-> language, file_path |-> file_path,
                         description |-> description]
              Returned(saved) ==
                  /\ mode' = "done"
                  /\ opName' = "save_code_to_file"
                  /\ input' = code
                  /\ answers' = [reply |-> DefaultReply, outcome |-> Succeeded,
                                 writeOk |-> writeOk, now |-> clock]
                  /\ intent' = "none"
                  /\ result' = saved.info
                  /\ raised' = FALSE
                  /\ trace' = <<Call("save_code_to_file", called)>> \o saved.writes
                  /\ saved_files' =
                        saved_files \o [k \in 1..Len(saved.writes) |-> saved.writes[k].arg]
          IN  Returned(save_code_to_file(code, language, file_path, description, clock,
                                         writeOk))
    /\ UNCHANGED <<cmd, verdict, clock>>

\* one call agent.process_request(user_request) that ends in a save: a generate
\* and a freeform request, the model answering with a tagged or an untagged block
RequestSave ==
    /\ Len(saved_files) < MaxSaves
    /\ \E user_request \in {"generate code in javascript", "  Write Me a Sorter "},
          content \in {Fence \o "python\ndef f():\n    return 1\n" \o Fence,
                       Fence \o "\ndef f():\n    return 1\n" \o Fence} :
          LET e == [reply |-> [ok |-> TRUE, content |-> content], outcome |-> Succeeded,
                    writeOk |-> TRUE, now |-> clock]
              Wrote(writes) ==
                  saved_files' = saved_files \o [k \in 1..Len(writes) |-> writes[k].arg]
              Returned(r) ==
                  /\ mode' = "done"
                  /\ opName' = "process_request"
                  /\ input' = user_request
                  /\ answers' = e
                  /\ intent' = ClassifyIntent(user_request)
                  /\ result' = r.result
                  /\ raised' = r.raised
                  /\ trace' = r.trace
                  /\ Wrote(SelectSeq(r.trace, LAMBDA c : c.fn = "write_file"))
          IN  Returned(process_request(user_request, e, clock))
    /\ UNCHANGED <<cmd, verdict, clock>>

\* a second passes
Tick ==
    /\ clock < MaxClock
    /\ clock' = clock + 1
    /\ UNCHANGED <<cmd, verdict, mode, opName, input, answers, intent, result, raised, trace,
                   saved_files>>

SpecSave == Init /\ [][SaveCode \/ RequestSave \/ Tick]_vars

\* C13: no two saves write to the same path, whatever the order of the saves,
\* also when their file paths or descriptions are the same and they happen
\* within the same second.
C13_SavedPathsAreUnique ==
    \A i, j \in 1..Len(saved_files) :
        i # j => saved_files[i].path # saved_files[j].path

\* C13, a run that breaks it: two saves of different code with the same
\* description within one second went to the same path, the second replacing
\* what the first wrote.
C13_Witness ==
    /\ Done("save_code_to_file")
    /\ Len(saved_files) = 2
    /\ saved_files[1].path = saved_files[2].path
    /\ saved_files[1].content # saved_files[2].content
    /\ trace[1].arg.description = "Sort a list!"
    /\ trace[1].arg.file_path = None

\* C14: for every successful save the extension of the path written is the
\* extension-table entry of the declared language, of the detected language
\* when none is declared, and txt when the language is not detectable or not
\* in the table; for direct saves and for the saves of the dispatcher.
C14_SavedExtensionMatchesLanguage ==
    \A k \in 1..(Len(trace) - 1) :
        (trace[k].fn = "save_code_to_file" /\ trace[k + 1].fn = "write_file")
        => LET declared == trace[k].arg.language
               lang == IF declared # None /\ declared # "" THEN declared
                       ELSE detect_language(trace[k].arg.code)
               expected == IF lang \in DOMAIN extension_map THEN extension_map[lang]
                           ELSE "txt"
           IN  SplitExt(trace[k + 1].arg.path).ext = "." \o expected

\* C14, a run that breaks it: a generate request for javascript was saved with
\* success under a name ending in .py, while the save reports extension js.
C14_Witness ==
    /\ Done("process_request")
    /\ intent = "generate-code"
    /\ result.status = "success"
    /\ result.file_info.status = "success"
    /\ result.file_info.language = "javascript"
    /\ result.file_info.extension = "js"
    /\ SplitExt(result.file_info.file_path).ext = ".py"
    /\ \E k \in 1..Len(trace) :
          trace[k] = Call("write_file", [path |-> result.file_info.file_path,
                                         content |-> "def f():\n    return 1"])

\* C15: every file saved lies in the data directory and is named
\* <prefix>_<YYYYMMDD_HHMMSS>.<ext>: a prefix, exactly one timestamp, one
\* extension; for direct saves and for the saves of the dispatcher.
C15_SavedNameHasOneTimestamp ==
    \A k \in 1..(Len(trace) - 1) :
        (trace[k].fn = "save_code_to_file" /\ trace[k + 1].fn = "write_file")
        => LET path == trace[k + 1].arg.path
               digits == {"0", "1", "2", "3", "4", "5", "6", "7", "8", "9"}
               name == From(path, Len(data_dir) + 2)
               stamp(i) == /\ i + 14 <= Len(name)
                           /\ \A d \in 0..7 : CharAt(name, i + d) \in digits
                           /\ CharAt(name, i + 8) = "_"
                           /\ \A d \in 9..14 : CharAt(name, i + d) \in digits
               stamps == {i \in 1..Len(name) : stamp(i)}
           IN  /\ StartsWith(path, data_dir \o "/")
               /\ ~Contains(name, "/")
               /\ Cardinality(stamps) = 1
               /\ \A i \in stamps :
                     /\ i > 2
                     /\ CharAt(name, i - 1) = "_"
                     /\ CharAt(name, i + 15) = "."
                     /\ i + 16 <= Len(name)
                     /\ ~Contains(From(name, i + 16), ".")

\* C15, a run that breaks it: the file of a generate request carries the
\* timestamp twice, once from the dispatcher and once from save_code_to_file.
C15_Witness ==
    /\ Done("process_request")
    /\ intent = "generate-code"
    /\ result.file_info.status = "success"
    /\ result.file_info.file_path =
          data_dir \o "/generated_code_" \o Timestamp(answers.now) \o "_"
          \o Timestamp(answers.now) \o ".py"
    /\ \E k \in 1..Len(trace) :
          /\ trace[k].fn = "write_file"
          /\ trace[k].arg.path = result.file_info.file_path

-----------------------------------------------------------------------------
(* The command executor on its own: execute_command(command, cwd, timeout) *)
(* for a command, a timeout and what running the command comes to          *)

\* one call execute_command(input, timeout = answers.timeout)
ExecuteCommand ==
    /\ mode = "idle"
    /\ mode' = "done"
    /\ opName' = "execute_command"
    /\ result' = execute_command(input, answers.timeout, answers.outcome)
    /\ trace' = <<Call("execute_command", input)>>
    /\ UNCHANGED <<cmd, verdict, input, answers, intent, raised, clock, saved_files>>

\* the commands: none, one word, several words; the outcomes: completion with
\* an exit code and any output, a timeout, a failure to launch
SpecExec ==
    /\ cmd = ""
    /\ verdict = "unchecked"
    /\ mode = "idle"
    /\ opName = "none"
    /\ input \in {"", "ls", "python model.py"}
    /\ answers \in [timeout : {DefaultTimeout, 300},
                    outcome : [kind : {"completed"}, returncode : {0, 1, 2, 127},
                               stdout : {"", "out"}, stderr : {"", "err"}]
                              \cup {o \in ExecOutcomes : o.kind # "completed"}
                              \cup {LaunchFailureOutcome(input, failure) :
                                        failure \in LaunchFailures}]
    /\ intent = "none"
    /\ result = [status |-> "none"]
    /\ raised = FALSE
    /\ trace = <<>>
    /\ clock = 0
    /\ saved_files = <<>>
    /\ [][ExecuteCommand]_vars

\* C19: every result of the executor, on every path (completion with exit code
\* 0 or another, timeout, failure to launch, empty command), is a record with
\* the five fields status, stdout, stderr, exit_code and message, and its
\* status is success or error.
C19_ResultHasFiveFields ==
    Done("execute_command")
    => /\ {"status", "stdout", "stderr", "exit_code", "message"} \subseteq DOMAIN result
       /\ result.status \in {"success", "error"}

\* C19, a run that breaks it: the command did not finish within the timeout
\* and the result has no stdout field.
C19_Witness ==
    /\ Done("execute_command")
    /\ input = "ls"
    /\ answers.outcome.kind = "timeout"
    /\ result.status = "error"
    /\ result.exit_code = 124
    /\ "stdout" \notin DOMAIN result

\* C20: when the command runs to completion the status is success if and only
\* if the exit code is 0, and in both cases the result carries the captured
\* stdout and stderr and the exit code of the process.
C20_CompletedStatusFollowsExitCode ==
    (Done("execute_command") /\ input # "" /\ answers.outcome.kind = "completed")
    => /\ result.status \in {"success", "error"}
       /\ result.status = "success" <=> answers.outcome.returncode = 0
       /\ {"stdout", "stderr", "exit_code"} \subseteq DOMAIN result
       /\ result.stdout = answers.outcome.stdout
       /\ result.stderr = answers.outcome.stderr
       /\ result.exit_code = answers.outcome.returncode

\* C20 witness: a command that exited with 127 after writing to both streams
\* has status error, both texts and the exit code 127.
C20_Witness ==
    /\ Done("execute_command")
    /\ input = "python model.py"
    /\ answers.outcome = [kind |-> "completed", returncode |-> 127, stdout |-> "out",
                          stderr |-> "err"]
    /\ result.status = "error"
    /\ result.stdout = "out"
    /\ result.stderr = "err"
    /\ result.exit_code = 127

\* C21: when the command does not finish within the timeout, execute_command
\* raises nothing and returns status error, exit code 124 and, in stderr, a
\* description that names the command and the timeout.
C21_TimeoutGivesExitCode124 ==
    (Done("execute_command") /\ input # "" /\ answers.outcome.kind = "timeout")
    => /\ ~raised
       /\ result.status = "error"
       /\ result.exit_code = 124
       /\ "stderr" \in DOMAIN result
       /\ Contains(result.stderr, "timed out after " \o ToString(answers.timeout))
       /\ Contains(result.stderr, input)

\* C21 witness: "python model.py" did not finish within 300 seconds and the
\* result has exit code 124.
C21_Witness ==
    /\ Done("execute_command")
    /\ input = "python model.py"
    /\ answers.timeout = 300
    /\ answers.outcome.kind = "timeout"
    /\ result.exit_code = 124
    /\ result.stderr = "Command 'python model.py' timed out after 300 seconds"

\* C22: when the command cannot be started (no such command, no permission to
\* execute it, no shell to run it), execute_command raises nothing and returns
\* status error with exit code 1 and the failure's text in stderr.
C22_LaunchFailureGivesExitCode1 ==
    (/\ Done("execute_command")
     /\ input # ""
     /\ \E failure \in LaunchFailures : answers.outcome = LaunchFailureOutcome(input, failure))
    => /\ ~raised
       /\ result.status = "error"
       /\ result.exit_code = 1
       /\ "stderr" \in DOMAIN result
       /\ result.stderr # ""

\* C22 witness: a command the shell does not find ends with exit code 127, the
\* shell's message in stderr.
C22_Witness ==
    /\ Done("execute_command")
    /\ input = "ls"
    /\ answers.outcome = LaunchFailureOutcome("ls", "not_found")
    /\ ~raised
    /\ result.status = "error"
    /\ result.exit_code = 127
    /\ result.stderr = "/bin/sh: 1: ls: not found\n"

\* ---------------------------------------------------------------------------
\* detect_language as a function of the code: one or two lines, each a cue of
\* one or several languages, or no cue at all

\* one call detect_language(input)
DetectLanguage ==
    /\ mode = "idle"
    /\ mode' = "done"
    /\ opName' = "detect_language"
    /\ result' = [language |-> detect_language(input)]
    /\ trace' = <<Call("detect_language", input)>>
    /\ UNCHANGED <<cmd, verdict, input, answers, intent, raised, clock, saved_files>>

SpecDetect ==
    /\ cmd = ""
    /\ verdict = "unchecked"
    /\ mode = "idle"
    /\ opName = "none"
    /\ LET lines == {"#include <a>", "using namespace s;", "a::b", "fn f", "func f",
                     "class A:", " x class y", "let x", "DEF f", "select a ", "$x",
                     "hello", "end"}
       IN  input \in {""} \cup lines \cup {a \o "\n" \o b : a, b \in lines}
    /\ answers = [replies |-> <<>>]
    /\ intent = "none"
    /\ result = [status |-> "none"]
    /\ raised = FALSE
    /\ trace = <<>>
    /\ clock = 0
    /\ saved_files = <<>>
    /\ [][DetectLanguage]_vars

\* C23: detect_language returns the first language, in the table's order
\* (python, javascript, typescript, java, c, cpp, csharp, php, go, ruby, rust,
\* kotlin, swift, html, css, sql), of which at least one cue matches the code,
\* so that code with cues of several languages gets the one listed first; it
\* returns None if and only if no cue of any language matches.
C23_DetectReturnsFirstMatchingLanguage ==
    Done("detect_language") =>
        LET Matches(k) ==
                \E j \in 1..Len(language_patterns[k].patterns) :
                    ReSearchFrom(language_patterns[k].patterns[j], input, 1, TRUE).ok
            First(hits) ==
                /\ hits = {} <=> result.language = None
                /\ hits # {} => result.language = language_patterns[Min(hits)].lang
        IN  /\ [k \in 1..Len(language_patterns) |-> language_patterns[k].lang]
               = <<"python", "javascript", "typescript", "java", "c", "cpp", "csharp",
                   "php", "go", "ruby", "rust", "kotlin", "swift", "html", "css", "sql">>
            /\ First({k \in 1..Len(language_patterns) : Matches(k)})
            /\ input = "#include <a>" => result.language = "c"
            /\ input = "hello" => result.language = None
            /\ input = "fn f\nlet x" => result.language = "javascript"

\* C23 witness: "#include <a>" is a cue of c and of cpp, and is detected as c;
\* the table has no cue for "hello".
C23_Witness ==
    /\ Done("detect_language")
    /\ input = "#include <a>"
    /\ ReSearchFrom(language_patterns[5].patterns[1], input, 1, TRUE).ok
    /\ ReSearchFrom(language_patterns[6].patterns[1], input, 1, TRUE).ok
    /\ result.language = "c"

\* ---------------------------------------------------------------------------
\* the extraction of fenced blocks from a reply, and what the generate and the
\* freeform branch save of them.  A reply is up to MaxSegments segments, each
\* prose or a fenced block (fence, tag, spaces, newline, body, newline, fence).

MaxSegments == 3

\* re.findall on the reply (input) as the branch does it, then the rest of the
\* branch: the generate branch's pattern returns the bodies alone, the freeform
\* branch's pattern the tag and the body
ExtractCodeBlocks ==
    /\ mode = "idle"
    /\ \E branch \in {"generate", "freeform"} :
          LET reply == [ok |-> TRUE, content |-> input]
              Returned(code_blocks, body) ==
                  /\ mode' = "done"
                  /\ opName' = "extract_code_blocks"
                  /\ intent' = branch
                  /\ result' = [code_blocks |->
                                    IF branch = "generate"
                                    THEN [k \in 1..Len(code_blocks) |-> code_blocks[k].body]
                                    ELSE code_blocks,
                                response |-> body.text,
                                save_file_info |-> body.save_file_info]
                  /\ raised' = body.exc
                  /\ trace' = body.trace
          IN  Returned(FindCodeBlocks(input),
                       IF branch = "generate"
                       THEN GenerateBranch("generate code", reply, 0, TRUE)
                       ELSE FreeformBranch("help me", reply, 0, TRUE))
    /\ UNCHANGED <<cmd, verdict, input, answers, clock, saved_files>>

SpecBlocks ==
    /\ cmd = ""
    /\ verdict = "unchecked"
    /\ mode = "idle"
    /\ opName = "none"
    /\ LET Prose(text) == [kind |-> "prose", tag |-> "", pad |-> "", body |-> text]
           Block(tag, pad, body) == [kind |-> "block", tag |-> tag, pad |-> pad, body |-> body]
           segments == {Prose("Nothing to show."), Prose("Use ~x~:"),
                        Block("python", "", "print(1)"),
                        Block("", "", "a = 1\n\nb"),
                        Block("js", " ", " let a;")}
           Text(s) == IF s.kind = "prose" THEN s.body
                      ELSE Fence \o s.tag \o s.pad \o "\n" \o s.body \o "\n" \o Fence
       IN  /\ answers \in [segments : UNION {[1..n -> segments] : n \in 0..MaxSegments}]
           /\ input = Join("\n", [k \in 1..Len(answers.segments) |->
                                      Text(answers.segments[k])])
    /\ intent = "none"
    /\ result = [status |-> "none"]
    /\ raised = FALSE
    /\ trace = <<>>
    /\ clock = 0
    /\ saved_files = <<>>
    /\ [][ExtractCodeBlocks]_vars

\* the most inputs one interactive session reads
MaxInputs == 3

\* a loop of run_interactive_mode that would leave when the agent reports an
\* error
InteractiveTurnLeavingOnError(user_input, env, printOk) ==
    LET read == <<Call("input", user_input)>>
        Shown(res) ==
            IF res.result.status = "success"
            THEN [ends |-> FALSE, dispatched |-> TRUE, result |-> res.result,
                  calls |-> read \o <<Call("process_request", user_input)>> \o res.trace
                            \o <<Call("print", res.result.response)>>]
            ELSE [ends |-> TRUE, dispatched |-> TRUE, result |-> res.result,
                  calls |-> read \o <<Call("process_request", user_input)>> \o res.trace
                            \o <<Call("print", "Error: " \o res.result.error_message)>>]
    IN  IF Lower(user_input) \in {"exit", "quit", "q"} THEN
            [ends |-> TRUE, dispatched |-> FALSE, result |-> [status |-> "none"],
             calls |-> read \o <<Call("print", "Exiting AI Code Helper. Goodbye!")>>]
        ELSE IF Strip(user_input) = "" THEN
            [ends |-> FALSE, dispatched |-> FALSE, result |-> [status |-> "none"],
             calls |-> read]
        ELSE Shown(process_request(user_input, env, env.now))

\* one pass of the loop of run_interactive_mode in which input() returned
\* `user_input`: the agent's collaborators answer `env` and printing the
\* outcome succeeds or raises (a text the console cannot encode); `ends` says
\* whether the pass leaves the loop, calls are the calls made in order
InteractiveTurn(user_input, env, printOk) ==
    LET read == <<Call("input", user_input)>>
        encodeError == "'charmap' codec can't encode character"
        Shown(res) ==
            LET returned == res.result
                handling == read \o <<Call("print", "\nProcessing your request...\n"),
                                      Call("process_request", user_input)>> \o res.trace
                Caught(text) ==
                    [ends |-> FALSE, dispatched |-> TRUE, result |-> returned,
                     calls |-> handling \o <<Call("raise", text),
                                             Call("print", "An error occurred: " \o text)>>]
                Displayed(lines) ==
                    [ends |-> FALSE, dispatched |-> TRUE, result |-> returned,
                     calls |-> handling \o [k \in 1..Len(lines) |-> Call("print", lines[k])]]
            IN  IF "status" \notin DOMAIN returned THEN Caught("'status'")
                ELSE IF returned.status = "success" THEN
                    IF "response" \notin DOMAIN returned THEN Caught("'response'")
                    ELSE IF ~printOk THEN Caught(encodeError)
                    ELSE Displayed(<<returned.response>>)
                ELSE IF ~printOk THEN Caught(encodeError)
                ELSE Displayed(<<"Error: " \o (IF "error_message" \in DOMAIN returned
                                             THEN returned.error_message
                                             ELSE "Unknown error")>>
                             \o (IF "additional_info" \in DOMAIN returned
                                 THEN <<returned.additional_info>> ELSE <<>>))
    IN  IF Lower(user_input) \in {"exit", "quit", "q"} THEN
            [ends |-> TRUE, dispatched |-> FALSE, result |-> [status |-> "none"],
             calls |-> read \o <<Call("print", "Exiting AI Code Helper. Goodbye!")>>]
        ELSE IF Strip(user_input) = "" THEN
            [ends |-> FALSE, dispatched |-> FALSE, result |-> [status |-> "none"],
             calls |-> read]
        ELSE Shown(process_request(user_input, env, env.now))

\* the lines typed at the prompt: the words that end the session in several
\* cases, blank lines, a word of them with a space before it, requests
InteractiveInputs ==
    { "exit", "Quit", "Q", "", " \t", " exit", "hello", "!cmd ls", "!cmd rm -rf /" }

\* input() has raised EOFError: the input is at its end
InputAtEnd ==
    \E k \in 1..Len(trace) :
        trace[k].fn = "raise" /\ trace[k].arg = "EOF when reading a line"

\* the passes of the loop made so far: each one starts with a call of input(),
\* which returns a line or raises EOFError
InteractivePasses ==
    Cardinality({k \in 1..Len(trace) :
                    \/ trace[k].fn = "input"
                    \/ trace[k].fn = "raise" /\ trace[k].arg = "EOF when reading a line"})

\* a pass of the loop: input() returns a line
ReadLine ==
    /\ mode = "idle"
    /\ InteractivePasses < MaxInputs
    /\ ~InputAtEnd
    /\ \E user_input \in InteractiveInputs :
       \* of the answers of the collaborators: the model replies in prose or
       \* raises, the command completes, the first second, the disk writable
       \E e \in {x \in Environments(user_input) :
                    /\ x.reply = DefaultReply \/ ~x.reply.ok
                    /\ x.outcome.kind = "completed"
                    /\ x.writeOk
                    /\ x.now = 0},
          printOk \in BOOLEAN :
          LET Passed(turn) ==
                  /\ mode' = IF turn.ends THEN "done" ELSE "idle"
                  /\ input' = user_input
                  /\ answers' = IF turn.dispatched THEN e ELSE answers
                  /\ intent' = IF turn.dispatched THEN ClassifyIntent(user_input) ELSE "none"
                  /\ result' = turn.result
                  /\ trace' = trace \o turn.calls
          IN  Passed(InteractiveTurn(user_input, e, printOk))
    /\ UNCHANGED <<cmd, verdict, opName, raised, clock, saved_files>>

\* input() raises EOFError at the end of the input: `except Exception` prints
\* it and the loop goes on; every later input() raises it again
ReadEndOfFile ==
    /\ mode = "idle"
    /\ InteractivePasses < MaxInputs
    /\ trace' = trace \o <<Call("raise", "EOF when reading a line"),
                           Call("print", "An error occurred: EOF when reading a line")>>
    /\ UNCHANGED <<cmd, verdict, mode, opName, input, answers, intent, result, raised,
                   clock, saved_files>>

\* Ctrl-C while input() waits: `except KeyboardInterrupt` leaves the loop
ReadInterrupted ==
    /\ mode = "idle"
    /\ InteractivePasses < MaxInputs
    /\ mode' = "done"
    /\ trace' = trace \o <<Call("raise", "KeyboardInterrupt"),
                           Call("print", "\nExiting AI Code Helper. Goodbye!")>>
    /\ UNCHANGED <<cmd, verdict, opName, input, answers, intent, result, raised, clock,
                   saved_files>>

\* Ctrl-C while the agent handles a request: process_request catches Exception
\* only, so KeyboardInterrupt reaches the loop and leaves it
DispatchInterrupted ==
    /\ mode = "idle"
    /\ InteractivePasses < MaxInputs
    /\ ~InputAtEnd
    /\ \E user_input \in InteractiveInputs :
          /\ Lower(user_input) \notin {"exit", "quit", "q"}
          /\ Strip(user_input) # ""
          /\ input' = user_input
          /\ intent' = ClassifyIntent(user_input)
          /\ trace' = trace \o <<Call("input", user_input),
                                 Call("print", "\nProcessing your request...\n"),
                                 Call("process_request", user_input),
                                 Call("raise", "KeyboardInterrupt"),
                                 Call("print", "\nExiting AI Code Helper. Goodbye!")>>
    /\ mode' = "done"
    /\ result' = [status |-> "none"]
    /\ UNCHANGED <<cmd, verdict, opName, answers, raised, clock, saved_files>>

\* run_interactive_mode(agent) from the banner on
SpecInteractive ==
    /\ cmd = ""
    /\ verdict = "unchecked"
    /\ mode = "idle"
    /\ opName = "run_interactive_mode"
    /\ input = ""
    /\ answers = NoEnv
    /\ intent = "none"
    /\ result = [status |-> "none"]
    /\ raised = FALSE
    /\ trace = <<>>
    /\ clock = 0
    /\ saved_files = <<>>
    /\ [][ReadLine \/ ReadEndOfFile \/ ReadInterrupted \/ DispatchInterrupted]_vars

=============================================================================
